---- MODULE Spec2Model ----
(***************************************************************************)
(* thermoprint: ESC/POS receipt builder and JSON template interpreter.     *)
(*                                                                         *)
(* Text is a sequence of Unicode scalar values (code points), a byte       *)
(* buffer a sequence of numbers in 0..255.  A Rust Option is a sequence of *)
(* length at most one; a Result is a record with the field ok.             *)
(***************************************************************************)
EXTENDS Integers, Sequences, FiniteSets, TLC

\* ---------------------------------------------------------------- bounds
\* Longest element list of a template document.
MaxElements == 2
\* Most operations applied to one fluent builder before build().
MaxOps == 2
\* Longest text drawn over the short alphabet for the text layer.
MaxTextLen == 5
\* Longest right-hand text of a two-column row.
MaxRightLen == 3
\* Largest width and character limit handed to the text layer.
MaxCols == 8

\* ------------------------------------------------------- generic helpers
None == <<>>
Some(x) == <<x>>
Ok(x) == [ok |-> TRUE, v |-> x]
Err(x) == [ok |-> FALSE, e |-> x]

Repeat(c, n) == [i \in 1..n |-> c]
Take(s, n) == SubSeq(s, 1, IF n < Len(s) THEN n ELSE Len(s))
IsPrefix(p, s) == Len(p) <= Len(s) /\ SubSeq(s, 1, Len(p)) = p
Max(a, b) == IF a >= b THEN a ELSE b
\* usize::saturating_sub
saturating_sub(a, b) == IF a >= b THEN a - b ELSE 0

RECURSIVE Flatten(_)
Flatten(ss) ==
  IF ss = <<>> THEN <<>>
  ELSE IF Len(ss) = 1 THEN ss[1]
  ELSE LET h == Len(ss) \div 2
       IN Flatten(SubSeq(ss, 1, h)) \o Flatten(SubSeq(ss, h + 1, Len(ss)))

\* str::to_lowercase on the ASCII range (no documented code holds a letter
\* that a non-ASCII character lowercases to).
to_lowercase(s) == [i \in 1..Len(s) |-> IF s[i] >= 65 /\ s[i] <= 90 THEN s[i] + 32 ELSE s[i]]

\* char::encode_utf8: what str::as_bytes and str::len see of one character.
Utf8(c) ==
  IF c < 128 THEN <<c>>
  ELSE IF c < 2048 THEN <<192 + (c \div 64), 128 + (c % 64)>>
  ELSE IF c < 65536 THEN <<224 + (c \div 4096), 128 + ((c \div 64) % 64), 128 + (c % 64)>>
  ELSE <<240 + (c \div 262144), 128 + ((c \div 4096) % 64), 128 + ((c \div 64) % 64), 128 + (c % 64)>>

as_bytes(s) == Flatten([i \in 1..Len(s) |-> Utf8(s[i])])

\* Display of an integer (i32, or a Decimal of scale 0).
RECURSIVE NatStr(_)
NatStr(n) == IF n < 10 THEN <<48 + n>> ELSE NatStr(n \div 10) \o <<48 + (n % 10)>>
IntStr(n) == IF n < 0 THEN <<45>> \o NatStr(-n) ELSE NatStr(n)

\* ------------------------------------------------------ rust_decimal
\* A Decimal is m / 10^e: a signed mantissa and a scale.
Dec(m, e) == [m |-> m, e |-> e]
RECURSIVE Pow10(_)
Pow10(e) == IF e = 0 THEN 1 ELSE 10 * Pow10(e - 1)
DecZero == Dec(0, 0)
DecFromInt(n) == Dec(n, 0)
DecMul(a, c) == Dec(a.m * c.m, a.e + c.e)
DecRescale(a, e) == Dec(a.m * Pow10(e - a.e), e)
DecAdd(a, c) == LET e == Max(a.e, c.e) IN Dec(DecRescale(a, e).m + DecRescale(c, e).m, e)
DecSub(a, c) == LET e == Max(a.e, c.e) IN Dec(DecRescale(a, e).m - DecRescale(c, e).m, e)
DecGt(a, c) == DecSub(a, c).m > 0
DecLe(a, c) == DecSub(a, c).m <= 0
Abs(n) == IF n < 0 THEN -n ELSE n
\* Mutant of DecRound: the fraction is cut off.
DecRound_truncates(a) ==
  LET q == Abs(a.m) \div Pow10(a.e)
  IN IF a.m < 0 THEN -q ELSE q

\* Decimal::round: to scale 0, a midpoint goes to the even neighbour.
DecRound(a) ==
  LET p == Pow10(a.e)
      q == Abs(a.m) \div p
      r == Abs(a.m) % p
      up == 2 * r > p \/ (2 * r = p /\ q % 2 = 1)
      n == IF up THEN q + 1 ELSE q
  IN IF a.m < 0 THEN -n ELSE n

IsDigit(c) == c >= 48 /\ c <= 57
RECURSIVE DigitsVal(_)
DigitsVal(s) == IF s = <<>> THEN 0 ELSE 10 * DigitsVal(SubSeq(s, 1, Len(s) - 1)) + (s[Len(s)] - 48)
\* Decimal::from_str: an optional sign, digits with at most one point, at
\* least one digit; anything else is an error.
DecFromStr(s) ==
  LET signed == s # <<>> /\ s[1] \in {43, 45}
      body == IF signed THEN Tail(s) ELSE s
      dots == {i \in 1..Len(body) : body[i] = 46}
      digs == SelectSeq(body, IsDigit)
      wellFormed == /\ \A i \in 1..Len(body) : IsDigit(body[i]) \/ body[i] = 46
                    /\ Cardinality(dots) <= 1
                    /\ digs # <<>>
      scale == IF dots = {} THEN 0 ELSE Len(body) - (CHOOSE i \in dots : TRUE)
      mag == DigitsVal(digs)
  IN IF wellFormed
     THEN Ok(Dec(IF signed /\ s[1] = 45 THEN -mag ELSE mag, scale))
     ELSE Err("parse")

\* ------------------------------------------------------------ commands.rs
ESC == 27
GS == 29
LF == 10
FF == 12

commands_init == <<ESC, 64>>
commands_code_page_858 == <<ESC, 116, 19>>
commands_align_left == <<ESC, 97, 0>>
commands_align_center == <<ESC, 97, 1>>
commands_align_right == <<ESC, 97, 2>>
commands_bold_on == <<ESC, 69, 1>>
commands_bold_off == <<ESC, 69, 0>>
commands_double_height_on == <<ESC, 33, 16>>
commands_double_width_on == <<ESC, 33, 32>>
commands_double_size_on == <<ESC, 33, 48>>
commands_normal_size == <<ESC, 33, 0>>
commands_underline_off == <<ESC, 45, 0>>
commands_underline_on == <<ESC, 45, 1>>
commands_feed_lines(n) == <<ESC, 100, n>>
commands_form_feed == <<FF>>
commands_cut_full == <<GS, 86, 0>>
commands_cut_partial == <<GS, 86, 66, 0>>
commands_barcode_hri_position(pos) == <<GS, 72, pos>>
commands_barcode_hri_font(font) == <<GS, 102, font>>
commands_barcode_height(dots) == <<GS, 104, dots>>
commands_barcode_width(w) == <<GS, 119, w>>
\* Mutant of commands_barcode_code128: the length byte counts characters.
commands_barcode_code128_counts_chars(value) ==
  <<GS, 107, 73, Len(value) % 256>> \o as_bytes(value)

\* value.len() as u8: the UTF-8 length, truncated to one byte.
commands_barcode_code128(value) ==
  <<GS, 107, 73, Len(as_bytes(value)) % 256>> \o as_bytes(value)
commands_barcode_ean13(value) == <<GS, 107, 2>> \o as_bytes(value) \o <<0>>
\* Mutant of commands_qr_code: the store length counts characters.
commands_qr_code_counts_chars(data, size) ==
  LET plen == (Len(data) + 3) % 65536
  IN <<GS, 40, 107, plen % 256, (plen \div 256) % 256, 49, 80, 48>> \o as_bytes(data)
     \o <<GS, 40, 107, 3, 0, 49, 67, size>>
     \o <<GS, 40, 107, 3, 0, 49, 69, 49>>
     \o <<GS, 40, 107, 3, 0, 49, 81, 48>>

\* (data.len() + 3) as u16, low byte first.
commands_qr_code(data, size) ==
  LET plen == (Len(as_bytes(data)) + 3) % 65536
  IN <<GS, 40, 107, plen % 256, (plen \div 256) % 256, 49, 80, 48>> \o as_bytes(data)
     \o <<GS, 40, 107, 3, 0, 49, 67, size>>
     \o <<GS, 40, 107, 3, 0, 49, 69, 49>>
     \o <<GS, 40, 107, 3, 0, 49, 81, 48>>
commands_cash_drawer_kick == <<ESC, 112, 0, 25, 250, ESC, 112, 1, 25, 250>>

\* ------------------------------------------------------------ encoding.rs
\* Mutant of cp858_byte: no table, every character gives its low byte.
cp858_byte_no_table(c) == c % 256

cp858_byte(c) ==
  CASE c = 224 -> 133 [] c = 226 -> 131 [] c = 228 -> 132
    [] c = 233 -> 130 [] c = 232 -> 138 [] c = 234 -> 136 [] c = 235 -> 137
    [] c = 238 -> 140 [] c = 239 -> 139
    [] c = 244 -> 147 [] c = 246 -> 148
    [] c = 249 -> 151 [] c = 251 -> 150 [] c = 252 -> 129
    [] c = 231 -> 135
    [] c = 241 -> 164
    [] c = 192 -> 183 [] c = 194 -> 182
    [] c = 201 -> 144 [] c = 200 -> 212 [] c = 202 -> 210
    [] c = 206 -> 215
    [] c = 212 -> 228
    [] c = 217 -> 235 [] c = 219 -> 234
    [] c = 199 -> 128
    [] c = 209 -> 165
    [] c = 8364 -> 213
    [] OTHER -> c % 256

encode_cp858(t) == [i \in 1..Len(t) |-> cp858_byte(t[i])]

\* Mutants of truncate: the ellipsis is added to max_chars characters; the
\* cut length is the distance from 3 instead of saturating at 0.
truncate_no_room_for_dots(t, max_chars) ==
  IF Len(t) <= max_chars
  THEN t
  ELSE Take(t, max_chars) \o <<46, 46, 46>>
truncate_cut_distance(t, max_chars) ==
  IF Len(t) <= max_chars
  THEN t
  ELSE Take(t, IF max_chars >= 3 THEN max_chars - 3 ELSE 3 - max_chars) \o <<46, 46, 46>>

truncate(t, max_chars) ==
  IF Len(t) <= max_chars
  THEN t
  ELSE Take(t, saturating_sub(max_chars, 3)) \o <<46, 46, 46>>

center(t, w) ==
  IF Len(t) >= w THEN t ELSE Repeat(32, (w - Len(t)) \div 2) \o t

right_align(t, w) ==
  IF Len(t) >= w THEN t ELSE Repeat(32, w - Len(t)) \o t

\* Mutant of two_col: the gap is not raised to one space.
two_col_gap_may_vanish(l, r, w) ==
  LET gap == saturating_sub(w, Len(l) + Len(r))
  IN l \o Repeat(32, gap) \o r

two_col(l, r, w) ==
  LET gap == saturating_sub(w, Len(l) + Len(r))
  IN l \o Repeat(32, Max(gap, 1)) \o r

\* --------------------------------------------------------------- types.rs
PrintWidth == {"Mm58", "Mm80", "A4"}
Align == {"Left", "Center", "Right"}
width_cols(w) == CASE w = "Mm58" -> 32 [] w = "Mm80" -> 48 [] w = "A4" -> 90
TaxEntry_new(label, amt, included) == [label |-> label, amount |-> amt, included |-> included]

\* ---------------------------------------------------------------- i18n.rs
Language == {"Fr", "En", "Es", "Pt", "Ar", "Wo"}

LABELS_FR ==
  [ subtotal_ht |-> <<83, 79, 85, 83, 45, 84, 79, 84, 65, 76, 32, 72, 84>>,  \* "SOUS-TOTAL HT"
    excl_tax_note |-> <<40, 72, 111, 114, 115, 32, 84, 86, 65, 41>>,  \* "(Hors TVA)"
    discount |-> <<82, 69, 77, 73, 83, 69>>,  \* "REMISE"
    tax_details |-> <<68, 69, 84, 65, 73, 76, 32, 68, 69, 83, 32, 84, 65, 88, 69, 83, 58>>,  \* "DETAIL DES TAXES:"
    tax_included |-> <<105, 110, 99, 108, 117, 115, 101>>,  \* "incluse"
    additional_taxes |-> <<84, 97, 120, 101, 115, 32, 97, 100, 100, 105, 116, 105, 111, 110, 110, 101, 108, 108, 101, 115>>,  \* "Taxes additionnelles"
    total |-> <<84, 79, 84, 65, 76>>,  \* "TOTAL"
    received |-> <<77, 79, 78, 84, 65, 78, 84, 32, 82, 69, 67, 85>>,  \* "MONTANT RECU"
    change |-> <<77, 79, 78, 78, 65, 73, 69>>,  \* "MONNAIE"
    served_by |-> <<83, 101, 114, 118, 105, 32, 112, 97, 114, 58>>,  \* "Servi par:"
    thank_you |-> <<77, 101, 114, 99, 105, 32, 112, 111, 117, 114, 32, 118, 111, 116, 114, 101, 32, 99, 111, 110, 102, 105, 97, 110, 99, 101, 33>>,  \* "Merci pour votre confiance!"
    see_you_at |-> <<65, 32, 98, 105, 101, 110, 116, 111, 116, 32, 99, 104, 101, 122>>,  \* "A bientot chez"
    item_discount |-> <<82, 101, 109, 105, 115, 101, 58>> ]  \* "Remise:"

LABELS_EN ==
  [ subtotal_ht |-> <<83, 85, 66, 84, 79, 84, 65, 76>>,  \* "SUBTOTAL"
    excl_tax_note |-> <<40, 69, 120, 99, 108, 46, 32, 84, 97, 120, 41>>,  \* "(Excl. Tax)"
    discount |-> <<68, 73, 83, 67, 79, 85, 78, 84>>,  \* "DISCOUNT"
    tax_details |-> <<84, 65, 88, 32, 68, 69, 84, 65, 73, 76, 83, 58>>,  \* "TAX DETAILS:"
    tax_included |-> <<105, 110, 99, 108, 117, 100, 101, 100>>,  \* "included"
    additional_taxes |-> <<65, 100, 100, 105, 116, 105, 111, 110, 97, 108, 32, 116, 97, 120, 101, 115>>,  \* "Additional taxes"
    total |-> <<84, 79, 84, 65, 76>>,  \* "TOTAL"
    received |-> <<65, 77, 79, 85, 78, 84, 32, 82, 69, 67, 69, 73, 86, 69, 68>>,  \* "AMOUNT RECEIVED"
    change |-> <<67, 72, 65, 78, 71, 69>>,  \* "CHANGE"
    served_by |-> <<83, 101, 114, 118, 101, 100, 32, 98, 121, 58>>,  \* "Served by:"
    thank_you |-> <<84, 104, 97, 110, 107, 32, 121, 111, 117, 32, 102, 111, 114, 32, 121, 111, 117, 114, 32, 112, 117, 114, 99, 104, 97, 115, 101, 33>>,  \* "Thank you for your purchase!"
    see_you_at |-> <<83, 101, 101, 32, 121, 111, 117, 32, 115, 111, 111, 110, 32, 97, 116>>,  \* "See you soon at"
    item_discount |-> <<68, 105, 115, 99, 111, 117, 110, 116, 58>> ]  \* "Discount:"

LABELS_ES ==
  [ subtotal_ht |-> <<83, 85, 66, 84, 79, 84, 65, 76>>,  \* "SUBTOTAL"
    excl_tax_note |-> <<40, 83, 105, 110, 32, 73, 86, 65, 41>>,  \* "(Sin IVA)"
    discount |-> <<68, 69, 83, 67, 85, 69, 78, 84, 79>>,  \* "DESCUENTO"
    tax_details |-> <<68, 69, 84, 65, 76, 76, 69, 32, 68, 69, 32, 73, 77, 80, 85, 69, 83, 84, 79, 83, 58>>,  \* "DETALLE DE IMPUESTOS:"
    tax_included |-> <<105, 110, 99, 108, 117, 105, 100, 111>>,  \* "incluido"
    additional_taxes |-> <<73, 109, 112, 117, 101, 115, 116, 111, 115, 32, 97, 100, 105, 99, 105, 111, 110, 97, 108, 101, 115>>,  \* "Impuestos adicionales"
    total |-> <<84, 79, 84, 65, 76>>,  \* "TOTAL"
    received |-> <<77, 79, 78, 84, 79, 32, 82, 69, 67, 73, 66, 73, 68, 79>>,  \* "MONTO RECIBIDO"
    change |-> <<67, 65, 77, 66, 73, 79>>,  \* "CAMBIO"
    served_by |-> <<65, 116, 101, 110, 100, 105, 100, 111, 32, 112, 111, 114, 58>>,  \* "Atendido por:"
    thank_you |-> <<71, 114, 97, 99, 105, 97, 115, 32, 112, 111, 114, 32, 115, 117, 32, 99, 111, 109, 112, 114, 97, 33>>,  \* "Gracias por su compra!"
    see_you_at |-> <<72, 97, 115, 116, 97, 32, 112, 114, 111, 110, 116, 111, 32, 101, 110>>,  \* "Hasta pronto en"
    item_discount |-> <<68, 101, 115, 99, 117, 101, 110, 116, 111, 58>> ]  \* "Descuento:"

LABELS_PT ==
  [ subtotal_ht |-> <<83, 85, 66, 84, 79, 84, 65, 76>>,  \* "SUBTOTAL"
    excl_tax_note |-> <<40, 83, 101, 109, 32, 73, 86, 65, 41>>,  \* "(Sem IVA)"
    discount |-> <<68, 69, 83, 67, 79, 78, 84, 79>>,  \* "DESCONTO"
    tax_details |-> <<68, 69, 84, 65, 76, 72, 69, 83, 32, 68, 79, 83, 32, 73, 77, 80, 79, 83, 84, 79, 83, 58>>,  \* "DETALHES DOS IMPOSTOS:"
    tax_included |-> <<105, 110, 99, 108, 117, 105, 100, 111>>,  \* "incluido"
    additional_taxes |-> <<73, 109, 112, 111, 115, 116, 111, 115, 32, 97, 100, 105, 99, 105, 111, 110, 97, 105, 115>>,  \* "Impostos adicionais"
    total |-> <<84, 79, 84, 65, 76>>,  \* "TOTAL"
    received |-> <<86, 65, 76, 79, 82, 32, 82, 69, 67, 69, 66, 73, 68, 79>>,  \* "VALOR RECEBIDO"
    change |-> <<84, 82, 79, 67, 79>>,  \* "TROCO"
    served_by |-> <<65, 116, 101, 110, 100, 105, 100, 111, 32, 112, 111, 114, 58>>,  \* "Atendido por:"
    thank_you |-> <<79, 98, 114, 105, 103, 97, 100, 111, 32, 112, 101, 108, 97, 32, 115, 117, 97, 32, 99, 111, 109, 112, 114, 97, 33>>,  \* "Obrigado pela sua compra!"
    see_you_at |-> <<65, 116, 101, 32, 98, 114, 101, 118, 101, 32, 101, 109>>,  \* "Ate breve em"
    item_discount |-> <<68, 101, 115, 99, 111, 110, 116, 111, 58>> ]  \* "Desconto:"

LABELS_AR ==
  [ subtotal_ht |-> <<65, 76, 45, 77, 65, 74, 77, 79, 85, 39, 32, 65, 76, 45, 70, 69, 82, 39, 73>>,  \* "AL-MAJMOU' AL-FER'I"
    excl_tax_note |-> <<40, 66, 105, 100, 111, 117, 110, 32, 68, 97, 114, 105, 98, 97, 41>>,  \* "(Bidoun Dariba)"
    discount |-> <<84, 65, 75, 72, 70, 73, 68>>,  \* "TAKHFID"
    tax_details |-> <<84, 65, 70, 65, 83, 73, 76, 32, 65, 68, 45, 68, 65, 82, 73, 66, 65, 58>>,  \* "TAFASIL AD-DARIBA:"
    tax_included |-> <<109, 111, 117, 100, 97, 109, 97, 110, 97>>,  \* "moudamana"
    additional_taxes |-> <<68, 97, 114, 97, 105, 98, 32, 105, 100, 97, 102, 105, 121, 97>>,  \* "Daraib idafiya"
    total |-> <<65, 76, 45, 77, 65, 74, 77, 79, 85, 39>>,  \* "AL-MAJMOU'"
    received |-> <<65, 76, 45, 77, 65, 66, 76, 65, 71, 72, 32, 65, 76, 45, 77, 85, 83, 84, 65, 83, 76, 65, 77>>,  \* "AL-MABLAGH AL-MUSTASLAM"
    change |-> <<65, 76, 45, 66, 65, 65, 81, 73>>,  \* "AL-BAAQI"
    served_by |-> <<75, 104, 105, 100, 109, 97, 32, 109, 105, 110, 58>>,  \* "Khidma min:"
    thank_you |-> <<67, 104, 111, 117, 107, 114, 97, 110, 32, 108, 105, 32, 116, 104, 105, 113, 97, 116, 105, 107, 117, 109, 33>>,  \* "Choukran li thiqatikum!"
    see_you_at |-> <<73, 108, 97, 32, 97, 108, 45, 108, 105, 113, 97, 39, 32, 102, 105>>,  \* "Ila al-liqa' fi"
    item_discount |-> <<84, 97, 107, 104, 102, 105, 100, 58>> ]  \* "Takhfid:"

LABELS_WO ==
  [ subtotal_ht |-> <<84, 79, 76, 76, 85, 32, 78, 74, 69, 71>>,  \* "TOLLU NJEG"
    excl_tax_note |-> <<40, 66, 117, 32, 65, 109, 117, 108, 32, 67, 101, 114, 111, 41>>,  \* "(Bu Amul Cero)"
    discount |-> <<87, 65, 78, 65, 65, 71, 85, 32, 78, 74, 69, 71>>,  \* "WANAAGU NJEG"
    tax_details |-> <<67, 69, 82, 79, 78, 32, 89, 73, 58>>,  \* "CERON YI:"
    tax_included |-> <<99, 105, 32, 98, 105, 105, 114>>,  \* "ci biir"
    additional_taxes |-> <<67, 101, 114, 111, 32, 121, 117, 32, 110, 121, 117, 108>>,  \* "Cero yu nyul"
    total |-> <<84, 79, 76, 76, 85>>,  \* "TOLLU"
    received |-> <<88, 65, 65, 76, 73, 83, 32, 66, 85, 32, 74, 79, 84, 78, 65>>,  \* "XAALIS BU JOTNA"
    change |-> <<67, 69, 78, 78, 71, 69>>,  \* "CENNGE"
    served_by |-> <<76, 105, 103, 103, 101, 121, 107, 97, 116, 32, 98, 105, 58>>,  \* "Liggeykat bi:"
    thank_you |-> <<74, 101, 114, 101, 32, 106, 101, 102, 32, 99, 105, 32, 115, 97, 110, 117, 32, 99, 111, 110, 102, 105, 97, 110, 99, 101, 33>>,  \* "Jere jef ci sanu confiance!"
    see_you_at |-> <<66, 97, 32, 98, 101, 110, 101, 101, 110, 32, 121, 111, 111, 110, 32, 99, 105>>,  \* "Ba beneen yoon ci"
    item_discount |-> <<87, 97, 110, 97, 97, 103, 58>> ]  \* "Wanaag:"

labels(lang) ==
  CASE lang = "Fr" -> LABELS_FR [] lang = "En" -> LABELS_EN [] lang = "Es" -> LABELS_ES
    [] lang = "Pt" -> LABELS_PT [] lang = "Ar" -> LABELS_AR [] lang = "Wo" -> LABELS_WO

\* -------------------------------------------------------------- builder.rs

fmt_amount(amt, cur) == IntStr(DecRound(amt)) \o <<32>> \o cur

\* ReceiptBuilder { data, width, currency }.  The field labels is the active
\* label set of the specification's builder state: language() selects it,
\* and no operation of builder.rs reads it.
new(w) == [data |-> <<>>, width |-> w, currency |-> <<70, 67, 70, 65>> (* "FCFA" *), labels |-> LABELS_FR]

currency(b, symbol) == [b EXCEPT !.currency = symbol]

language(b, lang) == [b EXCEPT !.labels = labels(lang)]

build(b) == b.data

cols(b) == width_cols(b.width)
push(b, bytes) == [b EXCEPT !.data = @ \o bytes]
push_lf(b) == [b EXCEPT !.data = Append(@, LF)]
push_text(b, t) == [b EXCEPT !.data = @ \o encode_cp858(t)]
push_text_line(b, t) == push_lf(push_text(b, t))
fmt(b, amt) == fmt_amount(amt, b.currency)

\* Mutant of init: the reset also drops what the buffer holds.
init_clears_buffer(b) ==
  LET b0 == [b EXCEPT !.data = <<>>]
      b1 == push_lf(push(b0, commands_init))
      b2 == push_lf(push(b1, commands_init))
      b3 == push(b2, commands_code_page_858)
      b4 == push(b3, commands_align_left)
      b5 == push(b4, commands_normal_size)
      b6 == push(b5, commands_bold_off)
  IN push_lf(b6)

init(b) ==
  LET b1 == push_lf(push(b, commands_init))
      b2 == push_lf(push(b1, commands_init))
      b3 == push(b2, commands_code_page_858)
      b4 == push(b3, commands_align_left)
      b5 == push(b4, commands_normal_size)
      b6 == push(b5, commands_bold_off)
  IN push_lf(b6)

align(b, a) ==
  CASE a = "Left" -> push(b, commands_align_left)
    [] a = "Center" -> push(b, commands_align_center)
    [] a = "Right" -> push(b, commands_align_right)
align_left(b) == align(b, "Left")
align_center(b) == align(b, "Center")
align_right(b) == align(b, "Right")

bold(b, on) == push(b, IF on THEN commands_bold_on ELSE commands_bold_off)
double_size(b, on) == push(b, IF on THEN commands_double_size_on ELSE commands_normal_size)
double_height(b, on) == push(b, IF on THEN commands_double_height_on ELSE commands_normal_size)
normal_size(b) == push(b, commands_normal_size)
underline(b, on) == push(b, IF on THEN commands_underline_on ELSE commands_underline_off)

text(b, s) == push_text(b, s)
text_line(b, s) == push_text_line(b, s)
blank(b) == push_lf(b)

\* ch.to_string().repeat(cols) pushed as_bytes: UTF-8, not the code page.
divider(b, ch) == push_lf([b EXCEPT !.data = @ \o as_bytes(Repeat(ch, cols(b)))])

centered(b, t) == push_text_line(b, center(t, cols(b)))
right(b, t) == push_text_line(b, right_align(t, cols(b)))
row(b, l, r) == push_text_line(b, two_col(l, r, cols(b)))

feed(b, n) == push(b, commands_feed_lines(n))
cut(b) == push(b, commands_cut_partial)
cut_full(b) == push(b, commands_cut_full)
form_feed(b) == push(b, commands_form_feed)

barcode_code128(b, value) ==
  LET b1 == push(b, commands_barcode_width(2))
      b2 == push(b1, commands_barcode_height(60))
      b3 == push(b2, commands_barcode_hri_position(2))
      b4 == push(b3, commands_barcode_hri_font(0))
      b5 == push(b4, commands_barcode_code128(value))
  IN push_lf(b5)

barcode_code128_custom(b, value, bar_width, bar_height) ==
  LET b1 == push(b, commands_barcode_width(bar_width))
      b2 == push(b1, commands_barcode_height(bar_height))
      b3 == push(b2, commands_barcode_hri_position(2))
      b4 == push(b3, commands_barcode_hri_font(0))
      b5 == push(b4, commands_barcode_code128(value))
  IN push_lf(b5)

barcode_ean13(b, value) ==
  LET b1 == push(b, commands_barcode_width(2))
      b2 == push(b1, commands_barcode_height(60))
      b3 == push(b2, commands_barcode_hri_position(2))
      b4 == push(b3, commands_barcode_ean13(value))
  IN push_lf(b4)

qr_code(b, data, size) == push_lf(push(b, commands_qr_code(data, size)))

open_cash_drawer(b) == push(b, commands_cash_drawer_kick)

logo_raw(b, raster_bytes) == push_lf([b EXCEPT !.data = @ \o raster_bytes])

shop_header(b, name, phone, address) ==
  LET b1 == double_size(bold(align_center(b), TRUE), TRUE)
      b2 == text_line(b1, name)
      b3 == normal_size(bold(b2, FALSE))
      b4 == text_line(b3, phone)
      b5 == text_line(b4, address)
  IN align_left(b5)

\* Mutant of item: the discount block is shown for a discount of zero too.
item_shows_zero_discount(b, name, qty, unit_price, disc) ==
  LET c == cols(b)
      line_total == DecMul(unit_price, DecFromInt(qty))
      b1 == bold(b, TRUE)
      b2 == push_text_line(b1, truncate(name, c - 2))
      b3 == bold(b2, FALSE)
      qty_line == IntStr(qty) \o <<32, 120, 32>> (* " x " *) \o fmt(b3, unit_price)
      b4 == push_text_line(b3, qty_line)
      b5 == IF disc # None /\ DecLe(DecZero, disc[1])
            THEN LET d == disc[1]
                     orig_line == right_align(fmt(b4, line_total), c)
                     d1 == push_text_line(b4, orig_line)
                     disc_line == <<32, 32, 82, 101, 109, 105, 115, 101, 58, 32, 45>> (* "  Remise: -" *) \o fmt(d1, d)
                     d2 == push_text_line(d1, disc_line)
                     after == DecSub(line_total, d)
                     after_str == fmt(d2, after)
                     d3 == bold(d2, TRUE)
                     d4 == push_text_line(d3, right_align(after_str, c))
                 IN bold(d4, FALSE)
            ELSE push_text_line(b4, right_align(fmt(b4, line_total), c))
  IN push_lf(b5)

item(b, name, qty, unit_price, disc) ==
  LET c == cols(b)
      line_total == DecMul(unit_price, DecFromInt(qty))
      b1 == bold(b, TRUE)
      b2 == push_text_line(b1, truncate(name, c - 2))
      b3 == bold(b2, FALSE)
      qty_line == IntStr(qty) \o <<32, 120, 32>> (* " x " *) \o fmt(b3, unit_price)
      b4 == push_text_line(b3, qty_line)
      b5 == IF disc # None /\ DecGt(disc[1], DecZero)
            THEN LET d == disc[1]
                     orig_line == right_align(fmt(b4, line_total), c)
                     d1 == push_text_line(b4, orig_line)
                     disc_line == <<32, 32, 82, 101, 109, 105, 115, 101, 58, 32, 45>> (* "  Remise: -" *) \o fmt(d1, d)
                     d2 == push_text_line(d1, disc_line)
                     after == DecSub(line_total, d)
                     after_str == fmt(d2, after)
                     d3 == bold(d2, TRUE)
                     d4 == push_text_line(d3, right_align(after_str, c))
                 IN bold(d4, FALSE)
            ELSE push_text_line(b4, right_align(fmt(b4, line_total), c))
  IN push_lf(b5)

subtotal_ht(b, amt) ==
  LET c == cols(b)
      b1 == push_text_line(b, two_col(<<83, 79, 85, 83, 45, 84, 79, 84, 65, 76, 32, 72, 84>> (* "SOUS-TOTAL HT" *), fmt(b, amt), c))
  IN push_text_line(b1, right_align(<<40, 72, 111, 114, 115, 32, 84, 86, 65, 41>> (* "(Hors TVA)" *), c))

discount(b, amt, coupon_code) ==
  IF DecLe(amt, DecZero)
  THEN b
  ELSE LET label == IF coupon_code # None
                    THEN <<82, 69, 77, 73, 83, 69>> (* "REMISE" *) \o <<32, 40>> \o coupon_code[1] \o <<41>>
                    ELSE <<82, 69, 77, 73, 83, 69>> (* "REMISE" *)
           value == <<45>> \o fmt(b, amt)
       IN push_text_line(b, two_col(label, value, cols(b)))

\* entries.iter().filter(|t| !t.included).map(|t| t.amount).sum()
RECURSIVE taxes_additional(_)
taxes_additional(entries) ==
  IF entries = <<>> THEN DecZero
  ELSE LET rest == taxes_additional(Tail(entries))
       IN IF Head(entries).included THEN rest ELSE DecAdd(Head(entries).amount, rest)

\* The loop over the entries: one row for each entry with amount > 0.
RECURSIVE taxes_rows(_, _)
taxes_rows(b, entries) ==
  IF entries = <<>> THEN b
  ELSE LET entry == Head(entries)
           label == IF entry.included
                    THEN <<32, 32>> \o entry.label \o <<32, 40, 105, 110, 99, 108, 117, 115, 101, 41>> (* " (incluse)" *)
                    ELSE <<32, 32>> \o entry.label
           value == IF entry.included
                    THEN fmt(b, entry.amount)
                    ELSE <<43, 32>> \o fmt(b, entry.amount)
       IN IF DecLe(entry.amount, DecZero)
          THEN taxes_rows(b, Tail(entries))
          ELSE taxes_rows(push_text_line(b, two_col(label, value, cols(b))), Tail(entries))

taxes(b, entries) ==
  LET c == cols(b)
      additional == taxes_additional(entries)
      b1 == push_text_line(b, <<68, 69, 84, 65, 73, 76, 32, 68, 69, 83, 32, 84, 65, 88, 69, 83, 58>> (* "DETAIL DES TAXES:" *))
      b2 == taxes_rows(b1, entries)
  IN IF DecGt(additional, DecZero)
     THEN LET sep == Repeat(45, saturating_sub(c, 2))
              b3 == push_text_line(b2, <<32, 32>> \o sep)
          IN push_text_line(b3, two_col(<<32, 32, 84, 97, 120, 101, 115, 32, 97, 100, 100, 105, 116, 105, 111, 110, 110, 101, 108, 108, 101, 115>> (* "  Taxes additionnelles" *), <<43, 32>> \o fmt(b3, additional), c))
     ELSE b2

total(b, amt) ==
  LET rowtext == two_col(<<84, 79, 84, 65, 76>> (* "TOTAL" *), fmt(b, amt), cols(b))
      b1 == double_height(bold(b, TRUE), TRUE)
      b2 == push_text_line(b1, rowtext)
  IN bold(normal_size(b2), FALSE)

\* Mutant of received: only a negative amount is skipped.
received_prints_zero(b, amt) ==
  IF ~DecLe(DecZero, amt)
  THEN b
  ELSE push_text_line(b, two_col(<<77, 79, 78, 84, 65, 78, 84, 32, 82, 69, 67, 85>> (* "MONTANT RECU" *), fmt(b, amt), cols(b)))

received(b, amt) ==
  IF DecLe(amt, DecZero)
  THEN b
  ELSE push_text_line(b, two_col(<<77, 79, 78, 84, 65, 78, 84, 32, 82, 69, 67, 85>> (* "MONTANT RECU" *), fmt(b, amt), cols(b)))

change(b, amt) ==
  IF DecLe(amt, DecZero)
  THEN b
  ELSE push_text_line(b, two_col(<<77, 79, 78, 78, 65, 73, 69>> (* "MONNAIE" *), fmt(b, amt), cols(b)))

served_by(b, name) == push_text_line(b, <<83, 101, 114, 118, 105, 32, 112, 97, 114, 58, 32>> (* "Servi par: " *) \o name)

\* Mutant of thank_you: the alignment is not set back to the left.
thank_you_stays_centered(b, shop_name) ==
  LET b1 == text_line(align_center(b), <<77, 101, 114, 99, 105, 32, 112, 111, 117, 114, 32, 118, 111, 116, 114, 101, 32, 99, 111, 110, 102, 105, 97, 110, 99, 101, 33>> (* "Merci pour votre confiance!" *))
  IN text_line(b1, <<65, 32, 98, 105, 101, 110, 116, 111, 116, 32, 99, 104, 101, 122, 32>> (* "A bientot chez " *) \o shop_name)

thank_you(b, shop_name) ==
  LET b1 == text_line(align_center(b), <<77, 101, 114, 99, 105, 32, 112, 111, 117, 114, 32, 118, 111, 116, 114, 101, 32, 99, 111, 110, 102, 105, 97, 110, 99, 101, 33>> (* "Merci pour votre confiance!" *))
      b2 == text_line(b1, <<65, 32, 98, 105, 101, 110, 116, 111, 116, 32, 99, 104, 101, 122, 32>> (* "A bientot chez " *) \o shop_name)
  IN align_left(b2)

\* ------------------------------------------------------------- template.rs
\* A JSON document is a record of its keys; a key that serde lets a document
\* omit carries an Option, None when the document does not write it.
default_width == <<56, 48, 109, 109>>  \* "80mm"
default_currency == <<70, 67, 70, 65>>  \* "FCFA"
default_language == <<102, 114>>  \* "fr"
\* Mutant of default_divider_char: "=" in place of "-".
default_divider_char_equals == <<61>>
default_divider_char == <<45>>  \* "-"
default_true == TRUE
default_qr_size == 4
default_feed == 3
\* #[serde(default)] on a String, a bool, an Option
default_string == <<>>
default_bool == FALSE

unwrap_or(opt, d) == IF opt = None THEN d ELSE opt[1]

\* Deserialize of one Element: the tag selects the variant, absent keys take
\* the serde defaults.
Element_from_json(j) ==
  CASE j.type = "shop_header" ->
         [type |-> "shop_header", name |-> j.name,
          phone |-> unwrap_or(j.phone, default_string),
          address |-> unwrap_or(j.address, default_string)]
    [] j.type = "divider" -> [type |-> "divider", ch |-> unwrap_or(j.char, default_divider_char)]
    [] j.type \in {"bold", "double_size", "double_height", "underline"} ->
         [type |-> j.type, on |-> unwrap_or(j.on, default_true)]
    [] j.type = "tax" ->
         [type |-> "tax", label |-> j.label, amount |-> j.amount,
          included |-> unwrap_or(j.included, default_bool)]
    [] j.type = "qr_code" -> [type |-> "qr_code", data |-> j.data, size |-> unwrap_or(j.size, default_qr_size)]
    [] j.type = "feed" -> [type |-> "feed", lines |-> unwrap_or(j.lines, default_feed)]
    [] OTHER -> j

\* ReceiptTemplate::from_json on a well-formed document.
from_json(j) ==
  [width |-> unwrap_or(j.width, default_width),
   currency |-> unwrap_or(j.currency, default_currency),
   language |-> unwrap_or(j.language, default_language),
   elements |-> [i \in 1..Len(j.elements) |-> Element_from_json(j.elements[i])]]

InvalidDecimal(s) == [kind |-> "InvalidDecimal", value |-> s]
UnknownWidth(s) == [kind |-> "UnknownWidth", value |-> s]
UnknownLanguage(s) == [kind |-> "UnknownLanguage", value |-> s]
UnknownAlign(s) == [kind |-> "UnknownAlign", value |-> s]

\* Mutant of parse_decimal: a string that is no decimal counts as zero.
parse_decimal_or_zero(s) ==
  LET r == DecFromStr(s) IN IF r.ok THEN r ELSE Ok(DecZero)

parse_decimal(s) ==
  LET r == DecFromStr(s) IN IF r.ok THEN r ELSE Err(InvalidDecimal(s))

\* Mutant of parse_width: the codes are matched as written, without
\* lowercasing.
parse_width_case_sensitive(s) ==
  CASE s \in {<<53, 56, 109, 109>>, <<53, 56>>} -> Ok("Mm58")
    [] s \in {<<56, 48, 109, 109>>, <<56, 48>>} -> Ok("Mm80")
    [] s = <<97, 52>> -> Ok("A4")
    [] OTHER -> Err(UnknownWidth(s))

parse_width(s) ==
  LET l == to_lowercase(s)
  IN CASE l \in {<<53, 56, 109, 109>>, <<53, 56>>} -> Ok("Mm58")
       [] l \in {<<56, 48, 109, 109>>, <<56, 48>>} -> Ok("Mm80")
       [] l = <<97, 52>> -> Ok("A4")
       [] OTHER -> Err(UnknownWidth(s))

parse_language(s) ==
  LET l == to_lowercase(s)
  IN CASE l \in {<<102, 114>>, <<102, 114, 101, 110, 99, 104>>} -> Ok("Fr")
       [] l \in {<<101, 110>>, <<101, 110, 103, 108, 105, 115, 104>>} -> Ok("En")
       [] l \in {<<101, 115>>, <<115, 112, 97, 110, 105, 115, 104>>} -> Ok("Es")
       [] l \in {<<112, 116>>, <<112, 111, 114, 116, 117, 103, 117, 101, 115, 101>>} -> Ok("Pt")
       [] l \in {<<97, 114>>, <<97, 114, 97, 98, 105, 99>>} -> Ok("Ar")
       [] l \in {<<119, 111>>, <<119, 111, 108, 111, 102>>} -> Ok("Wo")
       [] OTHER -> Err(UnknownLanguage(s))

parse_align(s) ==
  LET l == to_lowercase(s)
  IN CASE l = <<108, 101, 102, 116>> -> Ok("Left")
       [] l = <<99, 101, 110, 116, 101, 114>> -> Ok("Center")
       [] l = <<114, 105, 103, 104, 116>> -> Ok("Right")
       [] OTHER -> Err(UnknownAlign(s))

\* discount.as_deref().map(parse_decimal).transpose()
parse_opt_decimal(o) ==
  IF o = None THEN Ok(None)
  ELSE LET r == parse_decimal(o[1]) IN IF r.ok THEN Ok(Some(r.v)) ELSE r

\* One arm of apply_element with a single fallible argument: the builder is
\* called only with the parsed value, the error returns before the call.
try1(r, f(_)) == IF r.ok THEN Ok(f(r.v)) ELSE r

apply_element(builder, element) ==
  LET t == element.type IN
  CASE t = "init" -> Ok(init(builder))
    [] t = "shop_header" -> Ok(shop_header(builder, element.name, element.phone, element.address))
    [] t = "text_line" -> Ok(text_line(builder, element.text))
    [] t = "centered" -> Ok(centered(builder, element.text))
    [] t = "right" -> Ok(right(builder, element.text))
    [] t = "row" -> Ok(row(builder, element.left, element.right))
    [] t = "divider" ->
         LET c == IF element.ch = <<>> THEN 45 ELSE element.ch[1] IN Ok(divider(builder, c))
    [] t = "blank" -> Ok(blank(builder))
    [] t = "bold" -> Ok(bold(builder, element.on))
    [] t = "double_size" -> Ok(double_size(builder, element.on))
    [] t = "double_height" -> Ok(double_height(builder, element.on))
    [] t = "normal_size" -> Ok(normal_size(builder))
    [] t = "underline" -> Ok(underline(builder, element.on))
    [] t = "align" -> LET a(v) == align(builder, v) IN try1(parse_align(element.value), a)
    [] t = "item" ->
         LET price == parse_decimal(element.unit_price)
             disc == parse_opt_decimal(element.discount)
         IN IF ~price.ok THEN price
            ELSE IF ~disc.ok THEN disc
            ELSE Ok(item(builder, element.name, element.qty, price.v, disc.v))
    [] t = "subtotal" -> LET f(v) == subtotal_ht(builder, v) IN try1(parse_decimal(element.amount), f)
    [] t = "tax" ->
         LET f(v) == taxes(builder, <<TaxEntry_new(element.label, v, element.included)>>)
         IN try1(parse_decimal(element.amount), f)
    [] t = "discount" ->
         LET f(v) == discount(builder, v, element.coupon_code)
         IN try1(parse_decimal(element.amount), f)
    [] t = "total" -> LET f(v) == total(builder, v) IN try1(parse_decimal(element.amount), f)
    [] t = "received" -> LET f(v) == received(builder, v) IN try1(parse_decimal(element.amount), f)
    [] t = "change" -> LET f(v) == change(builder, v) IN try1(parse_decimal(element.amount), f)
    [] t = "served_by" -> Ok(served_by(builder, element.name))
    [] t = "thank_you" -> Ok(thank_you(builder, element.shop_name))
    [] t = "barcode_code128" -> Ok(barcode_code128(builder, element.value))
    [] t = "barcode_ean13" -> Ok(barcode_ean13(builder, element.value))
    [] t = "qr_code" -> Ok(qr_code(builder, element.data, element.size))
    [] t = "feed" -> Ok(feed(builder, element.lines))
    [] t = "cut" -> Ok(cut(builder))
    [] t = "cut_full" -> Ok(cut_full(builder))
    [] t = "form_feed" -> Ok(form_feed(builder))
    [] t = "open_cash_drawer" -> Ok(open_cash_drawer(builder))

\* The loop of render: apply the elements from the left, stop at the first error.
RECURSIVE render_elements(_, _)
render_elements(builder, elements) ==
  IF elements = <<>> THEN Ok(builder)
  ELSE LET r == apply_element(builder, Head(elements))
       IN IF r.ok THEN render_elements(r.v, Tail(elements)) ELSE r

\* Mutants of render_new_builder: the currency of the document is not passed
\* on; the printer is initialised before the first element.
render_new_builder_no_currency(w, cur, l) == language(new(w), l)
render_new_builder_init_first(w, cur, l) == init(language(currency(new(w), cur), l))

\* ReceiptBuilder::new(width).currency(&self.currency).language(lang)
render_new_builder(w, cur, l) == language(currency(new(w), cur), l)

\* ReceiptTemplate::render as one function of the template.
render(t) ==
  LET w == parse_width(t.width)
      lang == parse_language(t.language)
  IN IF ~w.ok THEN w
     ELSE IF ~lang.ok THEN lang
     ELSE LET r == render_elements(render_new_builder(w.v, t.currency, lang.v), t.elements)
          IN IF r.ok THEN Ok(build(r.v)) ELSE r

render_json(j) == render(from_json(j))

\* ------------------------------------------------------------------ inputs
T_Ab == <<65, 98>>  \* "Ab"
T_Cafe == <<67, 97, 102, 233>>  \* "Café"
T_Long == Repeat(78, 40)  \* forty letters: longer than the 58 mm name column
T_XOF == <<88, 79, 70>>  \* "XOF"
T_Euro == <<8364>>  \* "€"
T_100 == <<49, 48, 48>>  \* "100"
T_2p5 == <<50, 46, 53>>  \* "2.5"
T_0 == <<48>>  \* "0"
T_m5 == <<45, 53>>  \* "-5"
T_30 == <<51, 48>>  \* "30"
T_abc == <<97, 98, 99>>  \* "abc"
T_1x == <<49, 120>>  \* "1x"
T_empty == <<>>  \* ""
T_digits12 == <<52, 48, 48, 54, 51, 56, 49, 51, 51, 51, 57, 51>>  \* "400638133393"

\* JSON elements, optional keys as Options.
J(ty) == [type |-> ty]
J_text(ty, t) == [type |-> ty, text |-> t]
J_amount(ty, a) == [type |-> ty, amount |-> a]
J_on(ty, o) == [type |-> ty, on |-> o]
J_item(n, q, p, d) == [type |-> "item", name |-> n, qty |-> q, unit_price |-> p, discount |-> d]
J_tax(a, i) == [type |-> "tax", label |-> T_Ab, amount |-> a, included |-> i]
J_discount(a, c) == [type |-> "discount", amount |-> a, coupon_code |-> c]

\* Elements that may stand anywhere in a document.
LeadElements ==
  { J("init"), J_text("text_line", T_Cafe), J_amount("total", T_100),
    J_amount("total", T_abc), [type |-> "align", value |-> <<109, 105, 100>>],
    J_on("bold", None) }

\* Every variant, with its optional keys written and omitted, and with
\* well-formed and malformed values.
PoolElements ==
  LeadElements \cup
  { [type |-> "shop_header", name |-> T_Cafe, phone |-> Some(T_100), address |-> Some(T_Ab)],
    [type |-> "shop_header", name |-> T_Cafe, phone |-> None, address |-> None],
    [type |-> "shop_header", name |-> T_Cafe, phone |-> Some(T_empty), address |-> Some(T_empty)],
    J_text("centered", T_Ab), J_text("right", T_Ab),
    [type |-> "row", left |-> T_Ab, right |-> T_100],
    [type |-> "divider", char |-> Some(<<61>>)], [type |-> "divider", char |-> None],
    [type |-> "divider", char |-> Some(<<45>>)], [type |-> "divider", char |-> Some(<<>>)],
    [type |-> "divider", char |-> Some(<<61, 42>>)], [type |-> "divider", char |-> Some(<<9552>>)],
    J("blank"), J("normal_size"),
    J_on("bold", Some(TRUE)), J_on("bold", Some(FALSE)),
    J_on("double_size", None), J_on("double_size", Some(TRUE)), J_on("double_size", Some(FALSE)),
    J_on("double_height", None), J_on("double_height", Some(TRUE)), J_on("double_height", Some(FALSE)),
    J_on("underline", None), J_on("underline", Some(TRUE)), J_on("underline", Some(FALSE)),
    [type |-> "align", value |-> <<108, 101, 102, 116>>],
    [type |-> "align", value |-> <<67, 69, 78, 84, 69, 82>>],
    [type |-> "align", value |-> <<82, 105, 103, 104, 116>>],
    [type |-> "align", value |-> <<>>],
    J_item(T_Ab, 2, T_100, None), J_item(T_Long, 1, T_2p5, Some(T_30)),
    J_item(T_Ab, 3, T_100, Some(T_30)), J_item(T_Ab, 1, T_100, Some(T_0)),
    J_item(T_Ab, 1, T_abc, None), J_item(T_Ab, 1, T_100, Some(T_1x)),
    J_item(T_Ab, 1, T_empty, Some(T_abc)),
    J_amount("subtotal", T_100), J_amount("subtotal", T_1x),
    J_tax(T_100, Some(TRUE)), J_tax(T_100, None), J_tax(T_100, Some(FALSE)),
    J_tax(T_0, None), J_tax(T_abc, Some(TRUE)),
    J_discount(T_30, None), J_discount(T_30, Some(T_Ab)), J_discount(T_0, None),
    J_discount(T_empty, Some(T_Ab)),
    J_amount("total", T_2p5), J_amount("total", T_m5),
    J_amount("received", T_100), J_amount("received", T_0), J_amount("received", T_abc),
    J_amount("change", T_30), J_amount("change", T_m5), J_amount("change", T_1x),
    [type |-> "served_by", name |-> T_Ab], [type |-> "thank_you", shop_name |-> T_Cafe],
    [type |-> "barcode_code128", value |-> T_Ab], [type |-> "barcode_ean13", value |-> T_digits12],
    [type |-> "qr_code", data |-> T_Ab, size |-> Some(4)],
    [type |-> "qr_code", data |-> T_Ab, size |-> None],
    [type |-> "qr_code", data |-> T_Ab, size |-> Some(7)],
    [type |-> "feed", lines |-> Some(3)], [type |-> "feed", lines |-> None],
    [type |-> "feed", lines |-> Some(1)],
    J("cut"), J("cut_full"), J("form_feed"), J("open_cash_drawer") }

RECURSIVE SeqsUpTo(_, _)
SeqsUpTo(S, n) ==
  IF n = 0 THEN {<<>>}
  ELSE LET shorter == SeqsUpTo(S, n - 1)
       IN shorter \cup {Append(s, e) : s \in shorter, e \in S}

\* Element lists: any elements of LeadElements, then one of PoolElements.
ElementLists ==
  {<<>>} \cup {Append(l, e) : l \in SeqsUpTo(LeadElements, MaxElements - 1), e \in PoolElements}

WidthStrings ==
  { <<53, 56, 109, 109>>, <<53, 56>>, <<56, 48, 109, 109>>, <<56, 48>>, <<97, 52>>,
    <<65, 52>>, <<56, 48, 77, 77>>, <<53, 56, 77, 109>>,
    <<57, 57, 57, 109, 109>>, <<>>, <<56, 48, 32>>, <<97>> }

LanguageStrings ==
  { <<102, 114>>, <<101, 110>>, <<101, 115>>, <<112, 116>>, <<97, 114>>, <<119, 111>>,
    <<102, 114, 101, 110, 99, 104>>, <<101, 110, 103, 108, 105, 115, 104>>,
    <<115, 112, 97, 110, 105, 115, 104>>, <<112, 111, 114, 116, 117, 103, 117, 101, 115, 101>>,
    <<97, 114, 97, 98, 105, 99>>, <<119, 111, 108, 111, 102>>,
    <<69, 78>>, <<70, 114, 101, 110, 99, 104>>, <<87, 79, 76, 79, 70>>,
    <<120, 120>>, <<>>, <<102, 114, 97>> }

JsonTemplate(w, c, l, els) == [width |-> w, currency |-> c, language |-> l, elements |-> els]

\* Documents: every top-level spelling over a short element list, and every
\* element list under a few top levels.
Documents ==
  { JsonTemplate(w, None, l, els) :
      w \in {None} \cup {Some(s) : s \in WidthStrings},
      l \in {None} \cup {Some(s) : s \in LanguageStrings},
      els \in {<<J("init"), J_amount("total", T_100)>>, <<J_amount("total", T_abc)>>} }
  \cup
  { JsonTemplate(t[1], t[2], t[3], els) :
      t \in { <<None, None, None>>,
              <<Some(<<53, 56>>), Some(T_XOF), Some(<<69, 78>>)>>,
              <<Some(<<65, 52>>), Some(T_Euro), None>>,
              <<Some(<<56, 48, 109, 109>>), Some(default_currency), Some(<<102, 114>>)>> },
      els \in ElementLists }

\* ------------------------------------------------------------------- state
VARIABLES
  json,      \* render: the document handed to render_json
  tpl,       \* render: the ReceiptTemplate deserialized from it
  pc,        \* render: where render stands
  width,     \* render: the local width (an Option until parse_width returned)
  lang,      \* render: the local lang
  builder,   \* render: the local builder; after a failed render, the builder
             \*         as it was handed to the failing apply_element
  idx,       \* render: index of the next element of the for loop
  result,    \* render: the Result returned (an Option until render returns)
  fb,        \* fluent use: the ReceiptBuilder value of the chain
  alive,     \* fluent use: FALSE once build(self) has consumed the builder
  out,       \* fluent use: the Vec<u8> build returned (an Option)
  ops,       \* fluent use: the operations applied so far, in order
  before,    \* fluent use: the builder before that operation
  tin,       \* text layer: the arguments of the call
  fn,        \* text layer: the function called ("none" before the call)
  ret        \* text layer: what the call returned (an Option)

vars ==
  <<json, tpl, pc, width, lang, builder, idx, result, fb, alive, out, ops, before, tin, fn, ret>>
renderVars == <<json, tpl, pc, width, lang, builder, idx, result>>
fluentVars == <<fb, alive, out, ops, before>>
textVars == <<tin, fn, ret>>

NoBuilder == new("Mm80")

\* ------------------------------------------------- render_json, step by step
RenderIdle ==
  /\ pc = "json" /\ tpl = None /\ width = None /\ lang = None
  /\ builder = NoBuilder /\ idx = 0 /\ result = None

FluentIdle ==
  /\ fb = NoBuilder /\ alive = FALSE /\ out = None /\ ops = <<>>
  /\ before = NoBuilder

NoInput == [text |-> <<>>, right |-> <<>>, n |-> 0]
TextIdle == tin = NoInput /\ fn = "none" /\ ret = None

Init == json \in Documents /\ RenderIdle /\ FluentIdle /\ TextIdle

\* template.rs:321  ReceiptTemplate::from_json(json)?
FromJson ==
  /\ pc = "json"
  /\ tpl' = Some(from_json(json))
  /\ pc' = "width"
  /\ UNCHANGED <<json, width, lang, builder, idx, result, fluentVars, textVars>>

\* Mutant of ParseWidth: the language is looked at before the width.
ParseWidth_language_first ==
  /\ pc = "width"
  /\ LET r == parse_width(tpl[1].width)
         l == parse_language(tpl[1].language)
     IN IF ~l.ok
        THEN result' = Some(l) /\ pc' = "done" /\ UNCHANGED width
        ELSE IF r.ok
        THEN width' = Some(r.v) /\ pc' = "lang" /\ UNCHANGED result
        ELSE result' = Some(r) /\ pc' = "done" /\ UNCHANGED width
  /\ UNCHANGED <<json, tpl, lang, builder, idx, fluentVars, textVars>>

\* template.rs:286  let width = parse_width(&self.width)?;
ParseWidth ==
  /\ pc = "width"
  /\ LET r == parse_width(tpl[1].width)
     IN IF r.ok
        THEN width' = Some(r.v) /\ pc' = "lang" /\ UNCHANGED result
        ELSE result' = Some(r) /\ pc' = "done" /\ UNCHANGED width
  /\ UNCHANGED <<json, tpl, lang, builder, idx, fluentVars, textVars>>

\* template.rs:287  let lang = parse_language(&self.language)?;
ParseLanguage ==
  /\ pc = "lang"
  /\ LET r == parse_language(tpl[1].language)
     IN IF r.ok
        THEN lang' = Some(r.v) /\ pc' = "new" /\ UNCHANGED result
        ELSE result' = Some(r) /\ pc' = "done" /\ UNCHANGED lang
  /\ UNCHANGED <<json, tpl, width, builder, idx, fluentVars, textVars>>

\* template.rs:289-291  ReceiptBuilder::new(width).currency(..).language(lang)
NewBuilder ==
  /\ pc = "new"
  /\ builder' = render_new_builder(width[1], tpl[1].currency, lang[1])
  /\ idx' = 1
  /\ pc' = "loop"
  /\ UNCHANGED <<json, tpl, width, lang, result, fluentVars, textVars>>

\* Mutant of ApplyElement: an element that fails is skipped and the loop goes
\* on.
ApplyElement_skip_failed ==
  /\ pc = "loop" /\ idx <= Len(tpl[1].elements)
  /\ LET r == apply_element(builder, tpl[1].elements[idx])
     IN builder' = (IF r.ok THEN r.v ELSE builder)
  /\ idx' = idx + 1
  /\ UNCHANGED <<json, tpl, pc, width, lang, result, fluentVars, textVars>>

\* template.rs:293-295  builder = apply_element(builder, element)?;
ApplyElement ==
  /\ pc = "loop" /\ idx <= Len(tpl[1].elements)
  /\ LET r == apply_element(builder, tpl[1].elements[idx])
     IN IF r.ok
        THEN builder' = r.v /\ idx' = idx + 1 /\ UNCHANGED <<pc, result>>
        ELSE result' = Some(r) /\ pc' = "done" /\ UNCHANGED <<builder, idx>>
  /\ UNCHANGED <<json, tpl, width, lang, fluentVars, textVars>>

\* template.rs:297  Ok(builder.build())
RenderBuild ==
  /\ pc = "loop" /\ idx > Len(tpl[1].elements)
  /\ result' = Some(Ok(build(builder)))
  /\ pc' = "done"
  /\ UNCHANGED <<json, tpl, width, lang, builder, idx, fluentVars, textVars>>

Next == FromJson \/ ParseWidth \/ ParseLanguage \/ NewBuilder \/ ApplyElement \/ RenderBuild

Spec == Init /\ [][Next]_vars

\* ------------------------------------------------ the fluent builder chain
A_0 == Dec(0, 0)
A_m5 == Dec(-5, 0)
A_30 == Dec(30, 0)
A_100 == Dec(100, 0)
A_2p5 == Dec(25, 1)
A_2p4 == Dec(24, 1)
A_0p6 == Dec(6, 1)
A_3p5 == Dec(35, 1)

TaxLists ==
  { <<TaxEntry_new(T_Ab, A_100, TRUE)>>,
    <<TaxEntry_new(T_Ab, A_100, TRUE), TaxEntry_new(T_Cafe, A_30, FALSE), TaxEntry_new(T_Ab, A_2p5, FALSE)>>,
    <<TaxEntry_new(T_Ab, A_0, FALSE), TaxEntry_new(T_Cafe, A_30, FALSE)>>,
    <<TaxEntry_new(T_Ab, A_m5, FALSE), TaxEntry_new(T_Cafe, A_30, FALSE)>>,
    <<TaxEntry_new(T_Cafe, A_2p5, FALSE), TaxEntry_new(T_Ab, A_m5, FALSE)>>,
    <<TaxEntry_new(T_Ab, A_0, TRUE), TaxEntry_new(T_Cafe, A_m5, TRUE)>>,
    <<>> }

InitBuilder ==
  /\ fb \in {new(w) : w \in PrintWidth}
  /\ alive = TRUE /\ out = None /\ ops = <<>> /\ before = NoBuilder
  /\ json = JsonTemplate(None, None, None, <<>>) /\ RenderIdle /\ TextIdle

last == ops[Len(ops)]

\* The chains explored: operations of PrefixOps, then one operation of any
\* kind, then build.
PrefixOps == {"currency", "language", "init", "bold", "text", "divider", "item", "total"}

\* One operation of the chain: it takes the builder by value and returns the
\* next one, so it needs a builder that build() has not consumed.
Do(name, args, nb) ==
  /\ alive
  /\ Len(ops) < MaxOps
  /\ \A i \in 1..Len(ops) : ops[i].op \in PrefixOps
  /\ fb' = nb
  /\ before' = fb
  /\ ops' = Append(ops, [op |-> name, args |-> args])
  /\ UNCHANGED <<alive, out, renderVars, textVars>>

Call_currency == \E s \in {T_XOF} : Do("currency", <<s>>, currency(fb, s))
Call_language == \E l \in Language : Do("language", <<l>>, language(fb, l))
Call_init == Do("init", <<>>, init(fb))
Call_align == \E a \in Align : Do("align", <<a>>, align(fb, a))
Call_bold == \E on \in BOOLEAN : Do("bold", <<on>>, bold(fb, on))
Call_double_size == \E on \in BOOLEAN : Do("double_size", <<on>>, double_size(fb, on))
Call_double_height == \E on \in BOOLEAN : Do("double_height", <<on>>, double_height(fb, on))
Call_normal_size == Do("normal_size", <<>>, normal_size(fb))
Call_underline == \E on \in BOOLEAN : Do("underline", <<on>>, underline(fb, on))
Call_text == Do("text", <<T_Ab>>, text(fb, T_Ab))
Call_text_line == Do("text_line", <<T_Cafe>>, text_line(fb, T_Cafe))
Call_blank == Do("blank", <<>>, blank(fb))
Call_divider == \E ch \in {61, 9552} : Do("divider", <<ch>>, divider(fb, ch))
Call_centered == Do("centered", <<T_Ab>>, centered(fb, T_Ab))
Call_right == Do("right", <<T_Ab>>, right(fb, T_Ab))
Call_row == Do("row", <<T_Ab, T_100>>, row(fb, T_Ab, T_100))
Call_feed == Do("feed", <<3>>, feed(fb, 3))
Call_cut == Do("cut", <<>>, cut(fb))
Call_cut_full == Do("cut_full", <<>>, cut_full(fb))
Call_form_feed == Do("form_feed", <<>>, form_feed(fb))
Call_barcode_code128 == Do("barcode_code128", <<T_Ab>>, barcode_code128(fb, T_Ab))
Call_barcode_code128_custom ==
  Do("barcode_code128_custom", <<T_Ab, 3, 80>>, barcode_code128_custom(fb, T_Ab, 3, 80))
Call_barcode_ean13 == Do("barcode_ean13", <<T_digits12>>, barcode_ean13(fb, T_digits12))
Call_qr_code == Do("qr_code", <<T_Ab, 3>>, qr_code(fb, T_Ab, 3))
Call_open_cash_drawer == Do("open_cash_drawer", <<>>, open_cash_drawer(fb))
Call_logo_raw == Do("logo_raw", <<>>, logo_raw(fb, <<GS, 118, 48, 0, 1, 0, 1, 0, 128>>))
Call_shop_header == Do("shop_header", <<T_Cafe, T_100, T_Ab>>, shop_header(fb, T_Cafe, T_100, T_Ab))
Call_item ==
  \E a \in { <<T_Ab, 2, A_100, None>>, <<T_Long, 1, A_2p5, Some(A_30)>>,
             <<T_Ab, 1, A_100, Some(A_0)>>, <<T_Ab, 3, A_100, Some(A_30)>>,
             <<T_Ab, 1, A_100, Some(A_m5)>>, <<T_Cafe, 3, A_2p4, Some(A_0p6)>>,
             <<T_Cafe, 3, A_2p4, None>> } :
    Do("item", a, item(fb, a[1], a[2], a[3], a[4]))
Call_subtotal_ht == Do("subtotal_ht", <<A_100>>, subtotal_ht(fb, A_100))
Call_discount ==
  \E amt \in {A_0, A_m5, A_30}, code \in {None, Some(T_Ab)} :
    Do("discount", <<amt, code>>, discount(fb, amt, code))
Call_taxes == \E es \in TaxLists : Do("taxes", <<es>>, taxes(fb, es))
Call_total == \E amt \in {A_100, A_2p5, A_3p5} : Do("total", <<amt>>, total(fb, amt))
Call_received == \E amt \in {A_0, A_m5, A_100} : Do("received", <<amt>>, received(fb, amt))
Call_change == \E amt \in {A_0, A_m5, A_2p5} : Do("change", <<amt>>, change(fb, amt))
Call_served_by == Do("served_by", <<T_Ab>>, served_by(fb, T_Ab))
Call_thank_you == Do("thank_you", <<T_Cafe>>, thank_you(fb, T_Cafe))

\* Mutant of Call_build: build borrows the builder, which stays usable.
Call_build_borrows ==
  /\ alive
  /\ out' = Some(build(fb))
  /\ UNCHANGED <<fb, alive, ops, before, renderVars, textVars>>

\* build(self): the builder is consumed, its buffer goes to the caller.
Call_build ==
  /\ alive
  /\ out' = Some(build(fb))
  /\ alive' = FALSE
  /\ UNCHANGED <<fb, ops, before, renderVars, textVars>>

NextBuilder ==
  \/ Call_currency \/ Call_language \/ Call_init \/ Call_align \/ Call_bold
  \/ Call_double_size \/ Call_double_height \/ Call_normal_size \/ Call_underline
  \/ Call_text \/ Call_text_line \/ Call_blank \/ Call_divider \/ Call_centered
  \/ Call_right \/ Call_row \/ Call_feed \/ Call_cut \/ Call_cut_full \/ Call_form_feed
  \/ Call_barcode_code128 \/ Call_barcode_code128_custom \/ Call_barcode_ean13
  \/ Call_qr_code \/ Call_open_cash_drawer \/ Call_logo_raw \/ Call_shop_header
  \/ Call_item \/ Call_subtotal_ht \/ Call_discount \/ Call_taxes \/ Call_total
  \/ Call_received \/ Call_change \/ Call_served_by \/ Call_thank_you
  \/ Call_build

SpecBuilder == InitBuilder /\ [][NextBuilder]_vars

\* ================================================================== claims
\* What the claims say of a template, stated apart from the interpreter.
EqualsIgnoringCase(a, c) ==
  /\ Len(a) = Len(c)
  /\ \A i \in 1..Len(a) :
       \/ a[i] = c[i]
       \/ a[i] \in 65..90 /\ c[i] = a[i] + 32
       \/ c[i] \in 65..90 /\ a[i] = c[i] + 32
IsCodeOf(s, codes) == \E c \in codes : EqualsIgnoringCase(s, c)

Codes58 == {<<53, 56, 109, 109>>, <<53, 56>>}  \* "58mm", "58"
Codes80 == {<<56, 48, 109, 109>>, <<56, 48>>}  \* "80mm", "80"
CodesA4 == {<<97, 52>>}  \* "a4"
DocumentedWidths == Codes58 \cup Codes80 \cup CodesA4
DocumentedLanguages ==
  { <<102, 114>>, <<101, 110>>, <<101, 115>>, <<112, 116>>, <<97, 114>>, <<119, 111>>,
    <<102, 114, 101, 110, 99, 104>>, <<101, 110, 103, 108, 105, 115, 104>>,
    <<115, 112, 97, 110, 105, 115, 104>>, <<112, 111, 114, 116, 117, 103, 117, 101, 115, 101>>,
    <<97, 114, 97, 98, 105, 99>>, <<119, 111, 108, 111, 102>> }
CodeLeft == <<108, 101, 102, 116>>  \* "left"
CodeCenter == <<99, 101, 110, 116, 101, 114>>  \* "center"
CodeRight == <<114, 105, 103, 104, 116>>  \* "right"
DocumentedAligns == {CodeLeft, CodeCenter, CodeRight}

WidthOf(s) ==
  CASE IsCodeOf(s, Codes58) -> "Mm58" [] IsCodeOf(s, Codes80) -> "Mm80" [] IsCodeOf(s, CodesA4) -> "A4"
AlignOf(s) ==
  CASE EqualsIgnoringCase(s, CodeLeft) -> "Left"
    [] EqualsIgnoringCase(s, CodeCenter) -> "Center"
    [] EqualsIgnoringCase(s, CodeRight) -> "Right"
Amount(s) == DecFromStr(s).v

\* The money strings of an element, in the order of its fields.
MoneyFields(e) ==
  CASE e.type = "item" -> <<e.unit_price>> \o e.discount
    [] e.type \in {"subtotal", "tax", "discount", "total", "received", "change"} -> <<e.amount>>
    [] OTHER -> <<>>
Malformed(s) == ~DecFromStr(s).ok
HasMalformedMoney(e) == \E i \in 1..Len(MoneyFields(e)) : Malformed(MoneyFields(e)[i])
FirstMalformedMoney(e) ==
  LET f == MoneyFields(e)
      i == CHOOSE k \in 1..Len(f) : Malformed(f[k]) /\ \A m \in 1..(k - 1) : ~Malformed(f[m])
  IN f[i]
HasUnknownAlign(e) == e.type = "align" /\ ~IsCodeOf(e.value, DocumentedAligns)
ElementFails(e) == HasMalformedMoney(e) \/ HasUnknownAlign(e)

\* The builder call an element denotes, made on the builder b.
FluentCall(b, e) ==
  CASE e.type = "init" -> init(b)
    [] e.type = "shop_header" -> shop_header(b, e.name, e.phone, e.address)
    [] e.type = "text_line" -> text_line(b, e.text)
    [] e.type = "centered" -> centered(b, e.text)
    [] e.type = "right" -> right(b, e.text)
    [] e.type = "row" -> row(b, e.left, e.right)
    [] e.type = "divider" -> divider(b, IF e.ch = <<>> THEN 45 ELSE Head(e.ch))
    [] e.type = "blank" -> blank(b)
    [] e.type = "bold" -> bold(b, e.on)
    [] e.type = "double_size" -> double_size(b, e.on)
    [] e.type = "double_height" -> double_height(b, e.on)
    [] e.type = "normal_size" -> normal_size(b)
    [] e.type = "underline" -> underline(b, e.on)
    [] e.type = "align" -> align(b, AlignOf(e.value))
    [] e.type = "item" ->
         item(b, e.name, e.qty, Amount(e.unit_price),
              IF e.discount = None THEN None ELSE Some(Amount(e.discount[1])))
    [] e.type = "subtotal" -> subtotal_ht(b, Amount(e.amount))
    [] e.type = "tax" -> taxes(b, <<TaxEntry_new(e.label, Amount(e.amount), e.included)>>)
    [] e.type = "discount" -> discount(b, Amount(e.amount), e.coupon_code)
    [] e.type = "total" -> total(b, Amount(e.amount))
    [] e.type = "received" -> received(b, Amount(e.amount))
    [] e.type = "change" -> change(b, Amount(e.amount))
    [] e.type = "served_by" -> served_by(b, e.name)
    [] e.type = "thank_you" -> thank_you(b, e.shop_name)
    [] e.type = "barcode_code128" -> barcode_code128(b, e.value)
    [] e.type = "barcode_ean13" -> barcode_ean13(b, e.value)
    [] e.type = "qr_code" -> qr_code(b, e.data, e.size)
    [] e.type = "feed" -> feed(b, e.lines)
    [] e.type = "cut" -> cut(b)
    [] e.type = "cut_full" -> cut_full(b)
    [] e.type = "form_feed" -> form_feed(b)
    [] e.type = "open_cash_drawer" -> open_cash_drawer(b)

RECURSIVE FluentChain(_, _)
FluentChain(b, es) == IF es = <<>> THEN b ELSE FluentChain(FluentCall(b, Head(es)), Tail(es))

Done == pc = "done"
Succeeded == Done /\ result[1].ok
Failed == Done /\ ~result[1].ok
Elements == tpl[1].elements
\* The loop was entered: width and language were accepted.
InLoop == pc = "loop" \/ (Done /\ lang # None)

\* C1: a render that succeeds returns exactly the bytes of the fluent chain
\* new(width).currency(currency), then the call each element denotes, in
\* order, then build().
C1_RenderIsFluentChain ==
  Succeeded =>
    result[1].v = build(FluentChain(currency(new(WidthOf(tpl[1].width)), tpl[1].currency), Elements))

\* A render of two elements under a currency of its own, ending in an item,
\* has succeeded.
C1_Witness ==
  /\ Succeeded
  /\ Len(Elements) >= 2
  /\ Elements[Len(Elements)].type = "item"
  /\ tpl[1].currency = T_XOF
  /\ result[1].v # <<>>

\* The bytes an element gives on a builder that holds nothing yet.
ElementBytes(e) ==
  apply_element(currency(new(WidthOf(tpl[1].width)), tpl[1].currency), e).v.data

\* C2: render is all-or-nothing: it succeeds exactly when no element fails,
\* a success has applied every element, and a failure returns no bytes,
\* whatever the elements before the failing one had emitted.
C2_AllOrNothing ==
  (Done /\ lang # None) =>
    /\ result[1].ok <=> (\A i \in 1..Len(Elements) : ~ElementFails(Elements[i]))
    /\ result[1].ok => idx = Len(Elements) + 1
    /\ ~result[1].ok => DOMAIN result[1] = {"ok", "e"}

\* A render failed after earlier elements had been applied and had emitted
\* bytes.
C2_Witness ==
  /\ Failed /\ lang # None
  /\ idx >= 2
  /\ builder.data # <<>>
  /\ ElementFails(Elements[idx])

\* C3: the elements are applied in document order and nothing else is
\* emitted: the buffer after k elements is the bytes of element 1, then of
\* element 2, ..., then of element k, and a successful render returns the
\* buffer after the last one.
C3_DocumentOrder ==
  /\ (InLoop /\ (result = None \/ result[1].ok)) =>
       builder.data = Flatten([k \in 1..(idx - 1) |-> ElementBytes(Elements[k])])
  /\ Succeeded =>
       result[1].v = Flatten([k \in 1..Len(Elements) |-> ElementBytes(Elements[k])])

\* A document whose init is not its first element has rendered.
C3_Witness ==
  /\ Succeeded
  /\ Len(Elements) >= 2
  /\ Elements[1].type = "text_line"
  /\ Elements[2].type = "init"

NoBytes(r) == ~r.ok /\ DOMAIN r = {"ok", "e"}

\* C4: a width, a language and an alignment are accepted exactly when they
\* spell a documented code, in any letter case; any other string fails the
\* render with the error of its own kind, which carries the string as the
\* document wrote it, and no bytes are returned.
C4_DocumentedCodes ==
  /\ (pc \notin {"json", "width"}) =>
       LET w == tpl[1].width
       IN IF IsCodeOf(w, DocumentedWidths)
          THEN width = Some(WidthOf(w))
          ELSE width = None /\ Done /\ result[1] = Err(UnknownWidth(w)) /\ NoBytes(result[1])
  /\ (pc \notin {"json", "width", "lang"} /\ width # None) =>
       LET l == tpl[1].language
       IN IF IsCodeOf(l, DocumentedLanguages)
          THEN lang # None
          ELSE lang = None /\ Done /\ result[1] = Err(UnknownLanguage(l)) /\ NoBytes(result[1])
  /\ InLoop =>
       /\ \A k \in 1..(idx - 1) :
            Elements[k].type = "align" => IsCodeOf(Elements[k].value, DocumentedAligns)
       /\ (Failed /\ Elements[idx].type = "align") =>
            /\ ~IsCodeOf(Elements[idx].value, DocumentedAligns)
            /\ result[1] = Err(UnknownAlign(Elements[idx].value))
            /\ NoBytes(result[1])
       /\ (Succeeded \/ pc = "loop") => \A k \in 1..(idx - 1) :
            Elements[k].type = "align" =>
              ElementBytes(Elements[k]) = align(new("Mm80"), AlignOf(Elements[k].value)).data

\* A width written in capitals was accepted and the render then failed on a
\* language that is no documented code.
C4_Witness ==
  /\ Failed
  /\ tpl[1].width = <<65, 52>>
  /\ width = Some("A4")
  /\ result[1].e.kind = "UnknownLanguage"
  /\ result[1].e.value = tpl[1].language

\* C5: every money field is parsed before the builder call of its element:
\* an element is applied only with well-formed money strings, and a
\* malformed one fails the render with InvalidDecimal carrying the first such
\* string exactly, the buffer being what the elements before it left.
C5_MoneyParsedFirst ==
  InLoop =>
    /\ \A k \in 1..(idx - 1) : ~HasMalformedMoney(Elements[k])
    /\ (pc = "loop" /\ idx <= Len(Elements) /\ HasMalformedMoney(Elements[idx])) =>
         apply_element(builder, Elements[idx]) =
           Err(InvalidDecimal(FirstMalformedMoney(Elements[idx])))
    /\ (Failed /\ HasMalformedMoney(Elements[idx])) =>
         /\ result[1] = Err(InvalidDecimal(FirstMalformedMoney(Elements[idx])))
         /\ builder.data = Flatten([k \in 1..(idx - 1) |-> ElementBytes(Elements[k])])

\* An item with a well-formed unit price and a malformed discount failed the
\* render after an earlier element had been applied.
C5_Witness ==
  /\ Failed /\ lang # None
  /\ idx >= 2
  /\ Elements[idx].type = "item"
  /\ ~Malformed(Elements[idx].unit_price)
  /\ Elements[idx].discount # None /\ Malformed(Elements[idx].discount[1])
  /\ result[1].e = InvalidDecimal(Elements[idx].discount[1])

\* The documented defaults, written out in a document that omits them.
Written(opt, d) == IF opt = None THEN Some(d) ELSE opt
ElementWithDefaults(j) ==
  CASE j.type = "shop_header" ->
         [j EXCEPT !.phone = Written(j.phone, <<>>), !.address = Written(j.address, <<>>)]
    [] j.type = "divider" -> [j EXCEPT !.char = Written(j.char, <<45>>)]
    [] j.type \in {"bold", "double_size", "double_height", "underline"} ->
         [j EXCEPT !.on = Written(j.on, TRUE)]
    [] j.type = "tax" -> [j EXCEPT !.included = Written(j.included, FALSE)]
    [] j.type = "qr_code" -> [j EXCEPT !.size = Written(j.size, 4)]
    [] j.type = "feed" -> [j EXCEPT !.lines = Written(j.lines, 3)]
    [] OTHER -> j
WithDocumentedDefaults(j) ==
  [width |-> Written(j.width, <<56, 48, 109, 109>>),
   currency |-> Written(j.currency, <<70, 67, 70, 65>>),
   language |-> Written(j.language, <<102, 114>>),
   elements |-> [i \in 1..Len(j.elements) |-> ElementWithDefaults(j.elements[i])]]
OmitsAKey(j) ==
  \/ j.type = "shop_header" /\ (j.phone = None \/ j.address = None)
  \/ j.type = "divider" /\ j.char = None
  \/ j.type \in {"bold", "double_size", "double_height", "underline"} /\ j.on = None
  \/ j.type = "tax" /\ j.included = None
  \/ j.type = "qr_code" /\ j.size = None
  \/ j.type = "feed" /\ j.lines = None

\* C6: a document that omits a defaulted key is read, and renders, as the
\* document that writes the documented default out: width 80mm, currency
\* FCFA, language fr, divider "-", feed 3 lines, QR size 4, on for the style
\* switches, not included for a tax, empty phone and address.
C6_DefaultsAsWritten ==
  /\ tpl # None => tpl[1] = from_json(WithDocumentedDefaults(json))
  /\ Done => result[1] = render_json(WithDocumentedDefaults(json))

\* A document without width, currency and language, whose last element
\* omits a defaulted key, has rendered.
C6_Witness ==
  /\ Succeeded
  /\ json.width = None /\ json.currency = None /\ json.language = None
  /\ json.elements # <<>>
  /\ OmitsAKey(json.elements[Len(json.elements)])
  /\ json.elements[Len(json.elements)].type = "divider"
  /\ result[1].v # <<>>

\* ------------------------------------------------------ the fluent builder
\* What the last operation appended to the buffer.
Appended == SubSeq(fb.data, Len(before.data) + 1, Len(fb.data))
IsSuffix(s, t) == Len(s) <= Len(t) /\ SubSeq(t, Len(t) - Len(s) + 1, Len(t)) = s
Contains(t, s) == \E i \in 0..(Len(t) - Len(s)) : SubSeq(t, i + 1, i + Len(s)) = s

\* C7: the buffer only grows: what it held before an operation is a prefix
\* of what it holds after, so the bytes handed over by build() begin with
\* the buffer as it stood before the last operation.
C7_AppendOnly ==
  ops # <<>> =>
    /\ IsPrefix(before.data, fb.data)
    /\ fb.data = before.data \o Appended
    /\ out # None => IsPrefix(before.data, out[1])

\* A second operation has appended bytes to a buffer that already held some.
C7_Witness ==
  /\ Len(ops) = 2
  /\ before.data # <<>>
  /\ Len(fb.data) > Len(before.data)
  /\ last.op = "init"

\* C8: build() is terminal and hands the buffer over once: it returns
\* exactly the bytes accumulated (none when only new and currency were
\* called), nothing is handed over before it, and after it no operation and
\* no second build is possible on that builder.
C8_BuildTerminal ==
  /\ alive => out = None
  /\ out # None =>
       /\ ~alive
       /\ out[1] = fb.data
       /\ (\A i \in 1..Len(ops) : ops[i].op = "currency") => out[1] = <<>>
       /\ ~ENABLED NextBuilder

\* A builder that had accumulated bytes was built.
C8_Witness ==
  /\ ~alive
  /\ ops # <<>>
  /\ out # None /\ out[1] # <<>>

\* The labels a high-level operation prints, taken from a label record.
LabelsOf(l) ==
  CASE last.op = "subtotal_ht" -> {l.subtotal_ht, l.excl_tax_note}
    [] last.op = "discount" -> IF last.args[1].m > 0 THEN {l.discount} ELSE {}
    [] last.op = "taxes" ->
         IF \E i \in 1..Len(last.args[1]) : last.args[1][i].amount.m > 0
         THEN {l.tax_details} ELSE {}
    [] last.op = "total" -> {l.total}
    [] last.op = "received" -> IF last.args[1].m > 0 THEN {l.received} ELSE {}
    [] last.op = "change" -> IF last.args[1].m > 0 THEN {l.change} ELSE {}
    [] last.op = "served_by" -> {l.served_by}
    [] last.op = "thank_you" -> {l.thank_you, l.see_you_at}
    [] last.op = "item" ->
         IF last.args[4] # None /\ last.args[4][1].m > 0 THEN {l.item_discount} ELSE {}
    [] OTHER -> {}
SelectedLanguage ==
  IF \E i \in 1..Len(ops) : ops[i].op = "language"
  THEN LET k == CHOOSE i \in 1..Len(ops) :
                  ops[i].op = "language" /\ \A m \in (i + 1)..Len(ops) : ops[m].op # "language"
       IN ops[k].args[1]
  ELSE "Fr"

\* C9: the labels a high-level operation prints are those of the language
\* selected with language(L), the fields of L.labels(), and the French ones
\* when no language was selected.
C9_LabelsOfSelectedLanguage ==
  ops # <<>> =>
    \A s \in LabelsOf(labels(SelectedLanguage)) : Contains(Appended, encode_cp858(s))

\* The amount a discount, received or change row shows.
ShownAmount == encode_cp858(fmt_amount(last.args[1], before.currency))

\* C10: discount, received and change with an amount of zero or less leave
\* the builder as it was (buffer, width, currency), whatever the coupon code
\* and the earlier operations; with an amount above zero each appends
\* exactly one row as wide as the paper, the amount at its right end, and a
\* line feed.
C10_NonPositiveIsNoOp ==
  (ops # <<>> /\ last.op \in {"discount", "received", "change"}) =>
    IF last.args[1].m <= 0
    THEN fb = before
    ELSE /\ fb.width = before.width /\ fb.currency = before.currency
         /\ fb.data = before.data \o Appended
         /\ Len(Appended) = width_cols(before.width) + 1
         /\ Appended[Len(Appended)] = LF
         /\ \A i \in 1..(Len(Appended) - 1) : Appended[i] # LF
         /\ IsSuffix(ShownAmount \o <<LF>>, Appended)
         /\ Contains(Appended, <<32>>)

\* A discount of a negative amount with a coupon code was called on a
\* builder that already held bytes, and left it as it was.
C10_Witness ==
  /\ ops # <<>> /\ last.op = "discount"
  /\ last.args[1].m < 0
  /\ last.args[2] # None
  /\ before.data # <<>>
  /\ fb = before

\* ------------------------------------------------- the high-level helpers
CountLF(s) == Cardinality({i \in 1..Len(s) : s[i] = 10})
HasDiscount(d) == d # None /\ d[1].m > 0

Line(t) == encode_cp858(t) \o <<10>>
BoldOn == <<27, 69, 1>>
BoldOff == <<27, 69, 0>>

\* The bytes of an item under the label record l.
ItemLayout(l) ==
  LET a == last.args
      c == width_cols(before.width)
      cur == before.currency
      line_total == DecMul(a[3], DecFromInt(a[2]))
      head == BoldOn \o Line(truncate(a[1], c - 2)) \o BoldOff
              \o Line(IntStr(a[2]) \o <<32, 120, 32>> \o fmt_amount(a[3], cur))
      rest == IF HasDiscount(a[4])
              THEN Line(right_align(fmt_amount(line_total, cur), c))
                   \o Line(<<32, 32>> \o l.item_discount \o <<32, 45>> \o fmt_amount(a[4][1], cur))
                   \o BoldOn
                   \o Line(right_align(fmt_amount(DecSub(line_total, a[4][1]), cur), c))
                   \o BoldOff
              ELSE Line(right_align(fmt_amount(line_total, cur), c))
  IN Appended = head \o rest \o <<10>>

\* C12: item appends bold-on, the name truncated to cols-2, LF, bold-off;
\* the line "{qty} x {unit price}"; then, with a discount above zero, the
\* total right-aligned, the line of two spaces, the item-discount label of
\* the selected language, " -" and the discount, and in bold the final
\* price right-aligned; otherwise one right-aligned total; and one blank LF.
C12_ItemLayout ==
  (ops # <<>> /\ last.op = "item") => ItemLayout(labels(SelectedLanguage))

\* The whole units nearest to an exact amount: one, or two at a midpoint.
NearestUnits(a) ==
  LET p == Pow10(a.e)
      q == a.m \div p
  IN {n \in {q, q + 1} : 2 * Abs(a.m - n * p) <= p}
\* The exact product and difference of amounts, at the finer scale.
ExactTimes(a, k) == [m |-> a.m * k, e |-> a.e]
ExactMinus(a, c) ==
  LET e == Max(a.e, c.e)
  IN [m |-> a.m * Pow10(e - a.e) - c.m * Pow10(e - c.e), e |-> e]
\* An amount as the claim has it printed: a nearest unit, one space, the
\* currency symbol, at the end of a line and after the byte lead.
PrintsAmount(lead, a) ==
  \E n \in NearestUnits(a) :
    Contains(Appended, lead \o encode_cp858(IntStr(n) \o <<32>> \o before.currency) \o <<10>>)

\* C13: every amount is printed as the amount rounded to a nearest whole
\* unit, one space and the current currency symbol; an item rounds the
\* exact unitPrice*qty and the exact unitPrice*qty - discount, never
\* amounts that were rounded before; a midpoint goes to a nearest unit.
C13_RoundedWhenFormatted ==
  ops # <<>> =>
    LET a == last.args
    IN CASE last.op \in {"total", "subtotal_ht"} -> PrintsAmount(<<32>>, a[1])
         [] last.op \in {"received", "change"} -> a[1].m > 0 => PrintsAmount(<<32>>, a[1])
         [] last.op = "discount" -> a[1].m > 0 => PrintsAmount(<<32, 45>>, a[1])
         [] last.op = "taxes" ->
              \A i \in 1..Len(a[1]) :
                a[1][i].amount.m > 0 =>
                  PrintsAmount(IF a[1][i].included THEN <<32>> ELSE <<32, 43, 32>>, a[1][i].amount)
         [] last.op = "item" ->
              /\ PrintsAmount(IntStr(a[2]) \o <<32, 120, 32>>, a[3])
              /\ PrintsAmount(<<32>>, ExactTimes(a[3], a[2]))
              /\ HasDiscount(a[4]) =>
                   /\ PrintsAmount(<<32, 45>>, a[4][1])
                   /\ PrintsAmount(<<32>>, ExactMinus(ExactTimes(a[3], a[2]), a[4][1]))
         [] OTHER -> TRUE

\* An item of 3 at 2.4 less 0.6 was printed under a currency of its own:
\* 7.2 and 6.6 are rounded, not 2.4 and 0.6.
C13_Witness ==
  /\ ops # <<>> /\ last.op = "item"
  /\ last.args[2] = 3 /\ last.args[3] = [m |-> 24, e |-> 1]
  /\ last.args[4] = <<[m |-> 6, e |-> 1]>>
  /\ before.currency = <<88, 79, 70>>
  /\ Contains(Appended, <<32, 55, 32, 88, 79, 70, 10, 27, 69, 0>>)

ExactPlus(a, c) ==
  LET e == Max(a.e, c.e)
  IN [m |-> a.m * Pow10(e - a.e) + c.m * Pow10(e - c.e), e |-> e]
RECURSIVE SumNotIncluded(_)
SumNotIncluded(es) ==
  IF es = <<>> THEN [m |-> 0, e |-> 0]
  ELSE IF Head(es).included THEN SumNotIncluded(Tail(es))
       ELSE ExactPlus(Head(es).amount, SumNotIncluded(Tail(es)))
\* What follows the first line of the appended bytes.
AfterFirstLine ==
  LET k == CHOOSE i \in 1..Len(Appended) : Appended[i] = 10 /\ \A j \in 1..(i - 1) : Appended[j] # 10
  IN SubSeq(Appended, k + 1, Len(Appended))

\* The rows of taxes under the label record l, after its heading line.
TaxLayout(l) ==
  LET es == last.args[1]
      c == width_cols(before.width)
      cur == before.currency
      Row(t) ==
        IF t.amount.m <= 0 THEN <<>>
        ELSE IF t.included
             THEN Line(two_col(<<32, 32>> \o t.label \o <<32, 40>> \o l.tax_included \o <<41>>,
                               fmt_amount(t.amount, cur), c))
             ELSE Line(two_col(<<32, 32>> \o t.label, <<43, 32>> \o fmt_amount(t.amount, cur), c))
      sum == SumNotIncluded(es)
      extra ==
        IF sum.m > 0
        THEN Line(<<32, 32>> \o Repeat(45, c - 2))
             \o Line(two_col(<<32, 32>> \o l.additional_taxes, <<43, 32>> \o fmt_amount(sum, cur), c))
        ELSE <<>>
  IN /\ CountLF(Appended) >= 1
     /\ AfterFirstLine = Flatten([i \in 1..Len(es) |-> Row(es[i])]) \o extra

\* C14: after its heading taxes prints one row for each entry with an
\* amount above zero, in entry order, and none for the others: an included
\* entry shows its label with the 'included' suffix of the selected language
\* and the plain amount, another its label and "+ " amount; then, exactly
\* when the sum of the amounts not included is above zero, one separator
\* line and one 'additional taxes' row with that sum.
C14_TaxRows ==
  (ops # <<>> /\ last.op = "taxes") => TaxLayout(labels(SelectedLanguage))

\* The bytes of total under the label record l.
TotalLayout(l) ==
  Appended = BoldOn \o <<27, 33, 16>>
             \o Line(two_col(l.total, fmt_amount(last.args[1], before.currency), width_cols(before.width)))
             \o <<27, 33, 0>> \o BoldOff

\* C15: total appends bold-on, double-height-on, the row of the total label
\* of the selected language and the amount with LF, then normal-size and
\* bold-off, and nothing before or after: what the buffer held stays as it
\* was.
C15_TotalStyling ==
  (ops # <<>> /\ last.op = "total") =>
    /\ TotalLayout(labels(SelectedLanguage))
    /\ fb.data = before.data \o Appended

\* ------------------------------------------------------- the text layer
\* encoding.rs and commands.rs are pure functions: one call each, on
\* arguments drawn at the start.
\* Every character of the table of cp858_byte, in the order of the source.
T_table ==
  <<224, 226, 228, 233, 232, 234, 235, 238, 239, 244, 246, 249, 251, 252, 231, 241,
    192, 194, 201, 200, 202, 206, 212, 217, 219, 199, 209, 8364>>
InputTexts ==
  SeqsUpTo({65, 233}, MaxTextLen)
    \cup { T_table,
           <<79, 82, 68, 45, 48, 48, 49>>,  \* "ORD-001"
           <<227>>,  \* U+00E3, not in the table
           <<9552>>,  \* U+2550
           <<65, 9552, 1575, 8364>>,  \* "A", U+2550, U+0627, the Euro sign
           Repeat(65, 255), Repeat(65, 256), Repeat(233, 128), Repeat(65, 300) }
TextInputs ==
  [text : InputTexts, right : SeqsUpTo({66}, MaxRightLen), n : 0..MaxCols]

InitText ==
  /\ tin \in TextInputs /\ fn = "none" /\ ret = None
  /\ json = JsonTemplate(None, None, None, <<>>) /\ RenderIdle /\ FluentIdle

Eval(name, value) ==
  /\ fn = "none"
  /\ fn' = name
  /\ ret' = Some(value)
  /\ UNCHANGED <<tin, renderVars, fluentVars>>

Eval_encode_cp858 == Eval("encode_cp858", encode_cp858(tin.text))
Eval_truncate == Eval("truncate", truncate(tin.text, tin.n))
Eval_two_col == Eval("two_col", two_col(tin.text, tin.right, tin.n))
\* The frame of commands::barcode_code128, what the builder emits for it and
\* what a template of that one element renders to.
Eval_barcode_code128 ==
  Eval("barcode_code128",
       [frame |-> commands_barcode_code128(tin.text),
        built |-> build(barcode_code128(new("Mm80"), tin.text)),
        rendered |-> render_json(JsonTemplate(None, None, None,
                       <<[type |-> "barcode_code128", value |-> tin.text]>>))])

NextText ==
  \/ Eval_encode_cp858 \/ Eval_truncate \/ Eval_two_col \/ Eval_barcode_code128

SpecText == InitText /\ [][NextText]_vars

Returned(name) == fn = name /\ ret # None

C17_TruncateFits ==
  (Returned("truncate") /\ tin.n >= 3) =>
    LET t == tin.text
        s == ret[1]
    IN /\ Len(t) <= tin.n => s = t
       /\ Len(t) > tin.n =>
            /\ s = [i \in 1..tin.n |-> IF i <= tin.n - 3 THEN t[i] ELSE 46]
            /\ Len(s) = tin.n
       /\ Len(s) <= tin.n

\* A text of five characters was cut to four.
C17_Witness ==
  /\ Returned("truncate")
  /\ tin.n = 4 /\ Len(tin.text) = 5
  /\ ret[1] = <<tin.text[1], 46, 46, 46>>

\* C18 as claimed: for maxChars < 3 the result of truncate exceeds maxChars
\* by at most 2 characters.
C18_ExceedsByAtMostTwo ==
  (Returned("truncate") /\ tin.n < 3) => Len(ret[1]) <= tin.n + 2

\* C18 as amended: for maxChars < 3 the result of truncate is the text
\* itself when it has at most maxChars characters and "..." otherwise, so
\* it exceeds maxChars by at most 3 - maxChars characters: 3 for maxChars 0,
\* 2 for 1, 1 for 2.
C18_ExceedsByAtMostThree ==
  (Returned("truncate") /\ tin.n < 3) =>
    /\ Len(tin.text) <= tin.n => ret[1] = tin.text
    /\ Len(tin.text) > tin.n => ret[1] = <<46, 46, 46>>
    /\ Len(ret[1]) - tin.n <= 3 - tin.n

\* A text was cut with a limit of zero and three characters came back.
C18_Witness ==
  /\ Returned("truncate")
  /\ tin.n = 0 /\ Len(tin.text) >= 3
  /\ Len(ret[1]) = 3

\* The bytes the table of the accented letters and the Euro sign gives to
\* the characters of T_table, in the same order.
TableBytes ==
  <<133, 131, 132, 130, 138, 136, 137, 140, 139, 147, 148, 151, 150, 129, 135, 164,
    183, 182, 144, 212, 210, 215, 228, 235, 234, 128, 165, 213>>
InTable(c) == \E k \in 1..Len(T_table) : T_table[k] = c
TableByte(c) == TableBytes[CHOOSE k \in 1..Len(T_table) : T_table[k] = c]

\* C19 as claimed: encode emits one byte for each character, in order: the
\* table byte of a character of the table, and for any other character a
\* byte equal to the character's code.
C19_FallbackIsLossless ==
  Returned("encode_cp858") =>
    /\ Len(ret[1]) = Len(tin.text)
    /\ \A i \in 1..Len(tin.text) :
         ret[1][i] = IF InTable(tin.text[i]) THEN TableByte(tin.text[i]) ELSE tin.text[i]

\* C19 as amended: encode emits one byte for each character, in order: the
\* table byte of a character of the table, and for any other character the
\* low byte of its code (the code modulo 256), which is the code itself only
\* for a character below U+0100.
C19_FallbackIsLowByte ==
  Returned("encode_cp858") =>
    /\ Len(ret[1]) = Len(tin.text)
    /\ \A i \in 1..Len(tin.text) :
         /\ ret[1][i] \in 0..255
         /\ ret[1][i] = IF InTable(tin.text[i]) THEN TableByte(tin.text[i]) ELSE tin.text[i] % 256
         /\ (~InTable(tin.text[i]) /\ tin.text[i] < 256) => ret[1][i] = tin.text[i]

\* "A", U+2550, U+0627 and the Euro sign were encoded as "A", "P", "'" and
\* the table byte of the Euro sign.
C19_Witness ==
  /\ Returned("encode_cp858")
  /\ tin.text = <<65, 9552, 1575, 8364>>
  /\ ret[1] = <<65, 80, 39, 213>>

\* What the builder emits around the frame of a CODE128 barcode.
Code128Setup == <<29, 119, 2, 29, 104, 60, 29, 72, 2, 29, 102, 0>>
Code128FrameIs(length_byte) ==
  LET r == ret[1]
      payload == as_bytes(tin.text)
  IN /\ r.frame = <<29, 107, 73, length_byte>> \o payload
     /\ r.built = Code128Setup \o r.frame \o <<10>>
     /\ r.rendered = Ok(r.built)

\* C20 as claimed: code128(value) is [0x1D, 'k', 73, n] and the bytes of
\* value, n being the number of bytes that follow it, and the builder and
\* the template emit this frame: the length prefix always matches.
C20_LengthMatchesPayload ==
  Returned("barcode_code128") => Code128FrameIs(Len(as_bytes(tin.text)))

\* C20 as amended: code128(value) is [0x1D, 'k', 73, n] and the bytes of
\* value, n being the number of bytes that follow it modulo 256, and the
\* builder and the template emit this frame: the length prefix matches the
\* payload when value has at most 255 bytes, the limit of the one-byte
\* length, and not for a longer value.
C20_LengthIsLowByte ==
  Returned("barcode_code128") =>
    LET len == Len(as_bytes(tin.text))
    IN /\ Code128FrameIs(len % 256)
       /\ ret[1].frame[4] = Len(ret[1].frame) - 4 <=> len <= 255

\* A value of 128 two-byte characters was framed with a length byte of 0.
C20_Witness ==
  /\ Returned("barcode_code128")
  /\ tin.text = [i \in 1..128 |-> 233]
  /\ Len(ret[1].frame) = 260
  /\ ret[1].frame[4] = 0

\* ------------------------------------------------------------- the QR frames
\* The four sub-frames of a QR sequence, each opening with GS ( k.
QrStore(d) == <<49, 80, 48>> \o d
QrModuleSize(size) == <<GS, 40, 107, 3, 0, 49, 67, size>>
QrLevelM == <<GS, 40, 107, 3, 0, 49, 69, 49>>
QrPrint == <<GS, 40, 107, 3, 0, 49, 81, 48>>
\* The sequence is GS ( k lo hi, the store payload, then the three short
\* frames in the order module size, level M, print.
QrFramesAre(s, d, size) ==
  /\ Len(s) = 5 + 3 + Len(d) + 24
  /\ SubSeq(s, 1, 3) = <<GS, 40, 107>>
  /\ SubSeq(s, 6, 8 + Len(d)) = QrStore(d)
  /\ SubSeq(s, 9 + Len(d), Len(s)) = QrModuleSize(size) \o QrLevelM \o QrPrint

\* One call of commands::qr_code: the data is `text` repeated `copies` times,
\* once for every text, and for one text up to a byte more than the 16-bit
\* length of the store frame allows.
QrInputs ==
  [text : InputTexts, copies : {1}, size : 0..MaxCols]
    \cup [text : {<<65>>}, copies : {65533}, size : {3}]
QrData(in) ==
  <<>> \o [i \in 1..(Len(in.text) * in.copies) |-> in.text[((i - 1) % Len(in.text)) + 1]]

InitQr ==
  /\ tin \in QrInputs /\ fn = "none" /\ ret = None
  /\ json = JsonTemplate(None, None, None, <<>>) /\ RenderIdle /\ FluentIdle

Eval_qr_code == Eval("qr_code", commands_qr_code(QrData(tin), tin.size))
\* The sequence the builder appends for it, at the same arguments.
Eval_builder_qr_code ==
  Eval("builder_qr_code", build(qr_code(new("Mm80"), QrData(tin), tin.size)))

NextQr == Eval_qr_code \/ Eval_builder_qr_code

SpecQr == InitQr /\ [][NextQr]_vars

\* C21: qr_code(data, size) returns four sub-frames, each opening with
\* GS ( k, in the order store, module size, level M, print; the two length
\* bytes of the store frame, low byte first, are the number len(data)+3 and
\* are followed by 49, 80, 48 and the bytes of the data; the other three
\* frames have the length 3 and carry the size, the level 49 and the print
\* trigger.
C21_StoreLengthIsPayload ==
  Returned("qr_code") =>
    LET d == as_bytes(QrData(tin))
        s == ret[1]
    IN /\ QrFramesAre(s, d, tin.size)
       /\ s[4] + 256 * s[5] = Len(d) + 3

\* C21 as amended: the same frames, and the two length bytes are the number
\* (len(data)+3) mod 65536, which is len(data)+3 for data of at most 65532
\* bytes.
C21_StoreLengthIsLowWord ==
  Returned("qr_code") =>
    LET d == as_bytes(QrData(tin))
        s == ret[1]
    IN /\ QrFramesAre(s, d, tin.size)
       /\ s[4] \in 0..255 /\ s[5] \in 0..255
       /\ s[4] + 256 * s[5] = (Len(d) + 3) % 65536
       /\ Len(d) <= 65532 => s[4] + 256 * s[5] = Len(d) + 3

\* The sequence of a text of two-byte characters, whose length bytes count
\* bytes: 128 characters, 256 bytes, length 259.
C21_Witness ==
  /\ Returned("qr_code")
  /\ tin.text = Repeat(233, 128) /\ tin.size = 3
  /\ ret[1][4] = 3 /\ ret[1][5] = 1

\* ---------------------------------------------------------------- dither.rs
\* The f32 values of the pipeline are kept as exact fractions n/d in lowest
\* terms; the images drawn below have no value within rounding distance of
\* the threshold 128.
RECURSIVE GCD(_, _)
GCD(a, b) == IF b = 0 THEN a ELSE GCD(b, a % b)
Frac(n, d) == LET g == GCD(Abs(n), d) IN [n |-> n \div g, d |-> d \div g]
FracInt(k) == [n |-> k, d |-> 1]
FracAdd(a, b) ==
  LET g == GCD(a.d, b.d)
  IN Frac(a.n * (b.d \div g) + b.n * (a.d \div g), (a.d \div g) * b.d)
FracSub(a, b) == FracAdd(a, [n |-> -b.n, d |-> b.d])
\* a * k / d for integers k and d > 0.
FracScale(a, k, d) ==
  LET g == GCD(Abs(a.n), d)
  IN Frac((a.n \div g) * k, a.d * (d \div g))
\* a < k for an integer k.
FracBelow(a, k) == a.n < k * a.d
Min(a, b) == IF a <= b THEN a ELSE b

\* A call either returns a value or panics.
Value(v) == [ok |-> TRUE, v |-> v]
Panic(msg) == [ok |-> FALSE, panic |-> msg]

DitherMethod == {"Threshold", "FloydSteinberg"}

\* (0.299 r + 0.587 g + 0.114 b) * a + 255 * (1 - a), with a = alpha / 255.
luminance(r, g, b, alpha) ==
  Frac((299 * r + 587 * g + 114 * b) * alpha + 255000 * (255 - alpha), 255000)

\* One value of the bilinear downscale, at column x of row y of the new image
\* (both from 0). src_x = x * (width - 1) / dx and src_y = y * (height - 1) / dy.
bilinear(gray, w, h, dx, dy, x, y) ==
  LET x0 == (x * (w - 1)) \div dx
      rx == (x * (w - 1)) % dx
      y0 == (y * (h - 1)) \div dy
      ry == (y * (h - 1)) % dy
      x1 == Min(x0 + 1, w - 1)
      y1 == Min(y0 + 1, h - 1)
      p00 == gray[y0 * w + x0 + 1]
      p10 == gray[y0 * w + x1 + 1]
      p01 == gray[y1 * w + x0 + 1]
      p11 == gray[y1 * w + x1 + 1]
  IN FracAdd(FracAdd(FracScale(p00, (dx - rx) * (dy - ry), dx * dy),
                     FracScale(p10, rx * (dy - ry), dx * dy)),
             FracAdd(FracScale(p01, (dx - rx) * ry, dx * dy),
                     FracScale(p11, rx * ry, dx * dy)))

\* Mutant of to_grayscale_resized: the new height has no minimum.
to_grayscale_resized_no_min(rgba, w, h, max_width_px) ==
  LET gray == [i \in 1..(w * h) |->
                 luminance(rgba[4 * i - 3], rgba[4 * i - 2], rgba[4 * i - 1], rgba[4 * i])]
      new_w == max_width_px
      new_h == (h * max_width_px) \div w
      dx == Max(new_w - 1, 1)
      dy == Max(new_h - 1, 1)
  IN IF w <= max_width_px
     THEN Value([gray |-> gray, width |-> w, height |-> h])
     ELSE IF new_w > 0 /\ new_h > 0 /\ h = 0
     THEN Panic("attempt to subtract with overflow, or index out of bounds")
     ELSE Value([gray |-> [k \in 1..(new_w * new_h) |->
                            bilinear(gray, w, h, dx, dy,
                                     (k - 1) % new_w, (k - 1) \div new_w)],
                 width |-> new_w, height |-> new_h])

\* With height = 0 and a pixel to compute, `height - 1` overflows u32: a panic
\* in a build with overflow checks; without them it wraps, y1 is 1 and the
\* read of the empty gray buffer panics.
to_grayscale_resized(rgba, w, h, max_width_px) ==
  LET gray == [i \in 1..(w * h) |->
                 luminance(rgba[4 * i - 3], rgba[4 * i - 2], rgba[4 * i - 1], rgba[4 * i])]
      new_w == max_width_px
      new_h == Max((h * max_width_px) \div w, 1)
      dx == Max(new_w - 1, 1)
      dy == Max(new_h - 1, 1)
  IN IF w <= max_width_px
     THEN Value([gray |-> gray, width |-> w, height |-> h])
     ELSE IF new_w > 0 /\ h = 0
     THEN Panic("attempt to subtract with overflow, or index out of bounds")
     ELSE Value([gray |-> [k \in 1..(new_w * new_h) |->
                            bilinear(gray, w, h, dx, dy,
                                     (k - 1) % new_w, (k - 1) \div new_w)],
                 width |-> new_w, height |-> new_h])

threshold(gray, w, h) ==
  [i \in DOMAIN gray |-> FracBelow(gray[i], 128)]

\* The loop of floyd_steinberg from pixel at (from 0) on.
RECURSIVE floyd_steinberg_from(_, _, _, _, _)
floyd_steinberg_from(buf, mono, at, w, h) ==
  IF at >= w * h
  THEN mono
  ELSE LET x == at % w
           y == at \div w
           old == buf[at + 1]
           black == FracBelow(old, 128)
           err == FracSub(old, FracInt(IF black THEN 0 ELSE 255))
           add(b, i, k) == [b EXCEPT ![i + 1] = FracAdd(@, FracScale(err, k, 16))]
           b1 == IF x + 1 < w THEN add(buf, at + 1, 7) ELSE buf
           b2 == IF y + 1 < h /\ x > 0 THEN add(b1, (y + 1) * w + (x - 1), 3) ELSE b1
           b3 == IF y + 1 < h THEN add(b2, (y + 1) * w + x, 5) ELSE b2
           b4 == IF y + 1 < h /\ x + 1 < w THEN add(b3, (y + 1) * w + (x + 1), 1) ELSE b3
       IN floyd_steinberg_from(b4, [mono EXCEPT ![at + 1] = black], at + 1, w, h)

floyd_steinberg(gray, w, h) ==
  floyd_steinberg_from(gray, [i \in 1..(w * h) |-> FALSE], 0, w, h)

\* commands::raster_image; both arguments are u16.
commands_raster_image(bytes_per_line, height_px, raster_data) ==
  <<GS, 118, 48, 0,
    bytes_per_line % 256, (bytes_per_line \div 256) % 256,
    height_px % 256, (height_px \div 256) % 256>> \o raster_data

\* Mutant of pack_raster: the first pixel of a byte is its lowest bit.
pack_raster_lsb_first(mono, w, h) ==
  LET bytes_per_line == (w + 7) \div 8
      bit(y, x) == IF x < w /\ mono[y * w + x + 1] THEN 2 ^ (x % 8) ELSE 0
      row_byte(y, b) ==
        bit(y, 8 * b) + bit(y, 8 * b + 1) + bit(y, 8 * b + 2) + bit(y, 8 * b + 3)
          + bit(y, 8 * b + 4) + bit(y, 8 * b + 5) + bit(y, 8 * b + 6) + bit(y, 8 * b + 7)
      raster == [k \in 1..(bytes_per_line * h) |->
                   row_byte((k - 1) \div bytes_per_line, (k - 1) % bytes_per_line)]
  IN commands_raster_image(bytes_per_line % 65536, h % 65536, raster)

\* `bytes_per_line as u16` and `height as u16` keep the low 16 bits.
pack_raster(mono, w, h) ==
  LET bytes_per_line == (w + 7) \div 8
      bit(y, x) == IF x < w /\ mono[y * w + x + 1] THEN 2 ^ (7 - (x % 8)) ELSE 0
      row_byte(y, b) ==
        bit(y, 8 * b) + bit(y, 8 * b + 1) + bit(y, 8 * b + 2) + bit(y, 8 * b + 3)
          + bit(y, 8 * b + 4) + bit(y, 8 * b + 5) + bit(y, 8 * b + 6) + bit(y, 8 * b + 7)
      raster == [k \in 1..(bytes_per_line * h) |->
                   row_byte((k - 1) \div bytes_per_line, (k - 1) % bytes_per_line)]
  IN commands_raster_image(bytes_per_line % 65536, h % 65536, raster)

\* Every product of the dimensions drawn below is under 2^32.
dither_rgba(rgba, w, h, max_width_px, method) ==
  IF Len(rgba) # w * h * 4
  THEN Panic("RGBA data length mismatch")
  ELSE LET g == to_grayscale_resized(rgba, w, h, max_width_px)
       IN IF ~g.ok
          THEN g
          ELSE LET mono == IF method = "Threshold"
                           THEN threshold(g.v.gray, g.v.width, g.v.height)
                           ELSE floyd_steinberg(g.v.gray, g.v.width, g.v.height)
               IN Value(pack_raster(mono, g.v.width, g.v.height))

threshold_rgba(rgba, w, h, max_width_px) ==
  dither_rgba(rgba, w, h, max_width_px, "Threshold")
floyd_steinberg_rgba(rgba, w, h, max_width_px) ==
  dither_rgba(rgba, w, h, max_width_px, "FloydSteinberg")

\* -------------------------------------------------- the raster pipeline
\* One call of dither_rgba on an image drawn at the start. The image is
\* `pixels` repeated in row-major order up to `len` bytes.
MaxSide == 4
P_black == <<0, 0, 0, 255>>
P_white == <<255, 255, 255, 255>>
P_gray == <<100, 100, 100, 255>>
\* Black at alpha 128: luminance 127.
P_half == <<0, 0, 0, 128>>
P_clear == <<0, 0, 0, 0>>
P_clear_red == <<255, 0, 0, 0>>
Palette == {P_black, P_white, P_gray, P_half, P_clear, P_clear_red}
Patterns == {s \in SeqsUpTo(Palette, 2) : s # <<>>}
\* Patterns whose luminances are 0 and 255 only.
BinaryPatterns == {s \in SeqsUpTo({P_black, P_white, P_clear}, 2) : s # <<>>}

Image(p, w, h, m, me) ==
  [pixels |-> p, len |-> 4 * w * h, width |-> w, height |-> h,
   max_width_px |-> m, method |-> me]
Rgba(in) ==
  <<>> \o [i \in 1..in.len |->
             in.pixels[(((i - 1) \div 4) % Len(in.pixels)) + 1][((i - 1) % 4) + 1]]

\* Every pattern at every small size, thresholded.
ThresholdInputs ==
  { Image(p, w, h, m, "Threshold") :
      p \in Patterns, w \in 0..MaxSide, h \in 0..MaxSide, m \in 0..MaxSide }
\* Error diffusion on at most six pixels.
DiffusedInputs ==
  { Image(p, w, h, m, "FloydSteinberg") :
      p \in Patterns, w \in 0..2, h \in 0..3, m \in 0..2 }
    \cup { Image(p, 4, h, 3, "FloydSteinberg") : p \in Patterns, h \in 1..3 }
\* Rows of more than one byte, at the widths of the printers and narrower.
WideInputs ==
  { Image(p, w, h, m, me) :
      p \in BinaryPatterns, w \in {4, 8, 9, 16}, h \in 1..2, m \in {16, 384},
      me \in DitherMethod }
    \cup { Image(p, w, h, m, "Threshold") :
             p \in Patterns, w \in {9, 16}, h \in 1..3, m \in {8, 16} }
    \cup { Image(<<q>>, w, h, 8, "FloydSteinberg") :
             q \in {P_black, P_white, P_clear}, w \in {9, 16}, h \in 1..3 }
\* A byte too many, a pixel too few.
MismatchedInputs ==
  { [Image(<<P_black>>, w, h, 8, me) EXCEPT !.len = @ + d] :
      w \in 1..2, h \in 1..2, me \in DitherMethod, d \in {-4, 1} }
    \cup { [Image(<<P_black>>, w, 0, m, me) EXCEPT !.len = 1] :
             w \in 1..2, m \in {1, 8}, me \in DitherMethod }
\* One column of one row more than 16 bits count.
TallInputs == { Image(<<P_black>>, 1, 65536, 1, "Threshold") }

InitRaster ==
  /\ \/ tin \in ThresholdInputs
     \/ tin \in DiffusedInputs
     \/ tin \in WideInputs
     \/ tin \in MismatchedInputs
     \/ tin \in TallInputs
  /\ fn = "none" /\ ret = None
  /\ json = JsonTemplate(None, None, None, <<>>) /\ RenderIdle /\ FluentIdle

Eval_dither_rgba ==
  Eval("dither_rgba",
       dither_rgba(Rgba(tin), tin.width, tin.height, tin.max_width_px, tin.method))
Eval_threshold_rgba ==
  /\ tin.method = "Threshold"
  /\ Eval("threshold_rgba",
          threshold_rgba(Rgba(tin), tin.width, tin.height, tin.max_width_px))
Eval_floyd_steinberg_rgba ==
  /\ tin.method = "FloydSteinberg"
  /\ Eval("floyd_steinberg_rgba",
          floyd_steinberg_rgba(Rgba(tin), tin.width, tin.height, tin.max_width_px))

NextRaster == Eval_dither_rgba \/ Eval_threshold_rgba \/ Eval_floyd_steinberg_rgba

SpecRaster == InitRaster /\ [][NextRaster]_vars

\* ------------------------------------------------- claims on the raster
RasterCall ==
  /\ fn \in {"dither_rgba", "threshold_rgba", "floyd_steinberg_rgba"}
  /\ ret # None
\* The buffer has four bytes for each pixel.
Accepted == tin.len = tin.width * tin.height * 4
RasterReturned == RasterCall /\ ret[1].ok
Downscaled == tin.width > tin.max_width_px
\* The dimensions after the optional downscale, the height rounded down.
OutWidth == IF Downscaled THEN tin.max_width_px ELSE tin.width
OutHeight ==
  IF Downscaled
  THEN Max((tin.height * tin.max_width_px) \div tin.width, 1)
  ELSE tin.height
BytesPerLine == (OutWidth + 7) \div 8
\* The number a pair of header bytes holds, low byte first.
Word(s, i) == s[i] + 256 * s[i + 1]
\* The grayscale image that is thresholded or diffused.
GrayImage ==
  to_grayscale_resized(Rgba(tin), tin.width, tin.height, tin.max_width_px).v

\* C22: a call of the core aborts only on a documented precondition
\* violation: dither_rgba aborts only when the RGBA buffer does not have
\* width*height*4 bytes.
C22_AbortsOnlyOnMismatch ==
  (RasterCall /\ ~ret[1].ok) => ~Accepted

\* C23: for every accepted input the output is the header GS 'v' '0' 0
\* xL xH yL yH followed by ceil(W'/8) * H' data bytes, and the two header
\* numbers are ceil(W'/8) and H', the dimensions of the data that follows.
C23_HeaderIsDimensions ==
  (RasterReturned /\ Accepted) =>
    LET s == ret[1].v
    IN /\ Len(s) = 8 + BytesPerLine * OutHeight
       /\ SubSeq(s, 1, 4) = <<GS, 118, 48, 0>>
       /\ Word(s, 5) = BytesPerLine
       /\ Word(s, 7) = OutHeight

AllTransparent == \A i \in 1..Len(tin.pixels) : tin.pixels[i][4] = 0
AllZero(s) == \A k \in 9..Len(s) : s[k] = 0

\* C24: an image whose every pixel has alpha 0 gives a packed bitmap of
\* zero bytes only, at every width and height, with both methods, downscaled
\* or not.
C24_TransparentIsBlank ==
  (RasterCall /\ Accepted /\ AllTransparent) =>
    /\ ret[1].ok
    /\ Len(ret[1].v) = 8 + BytesPerLine * OutHeight
    /\ AllZero(ret[1].v)

\* The same of the calls that return.
TransparentIsBlankWhenReturned ==
  (RasterReturned /\ Accepted /\ AllTransparent) =>
    /\ Len(ret[1].v) = 8 + BytesPerLine * OutHeight
    /\ AllZero(ret[1].v)
\* A call on an accepted image panics only at height 0, wider than a
\* maximum of at least one pixel.
PanicsOnlyWithoutRows ==
  (RasterCall /\ Accepted /\ ~ret[1].ok) =>
    tin.height = 0 /\ Downscaled /\ tin.max_width_px >= 1

\* Bit 7 - j of the byte b.
BitSet(b, j) == (b \div (2 ^ (7 - j))) % 2 = 1

\* C25: with Threshold, bit (7 - x mod 8) of byte (x div 8) of row y is 1
\* exactly when the gray value of pixel (x, y) is below 128; a row has
\* ceil(width/8) bytes and the bits past the width are 0; a black opaque
\* image of 4 by 1 gives the one byte 0xF0.
C25_ThresholdPacking ==
  (RasterReturned /\ Accepted /\ tin.method = "Threshold") =>
    LET s == ret[1].v
        g == GrayImage
        bpl == (g.width + 7) \div 8
    IN /\ Len(s) = 8 + bpl * g.height
       /\ \A y \in 0..(g.height - 1), b \in 0..(bpl - 1), j \in 0..7 :
            LET x == 8 * b + j
            IN BitSet(s[8 + y * bpl + b + 1], j)
                 <=> (x < g.width /\ FracBelow(g.gray[y * g.width + x + 1], 128))
       /\ (tin.pixels = <<P_black>> /\ tin.width = 4 /\ tin.height = 1 /\ ~Downscaled)
            => SubSeq(s, 9, Len(s)) = <<240>>

\* Black at alpha 128 and white next to each other, in a row of nine pixels:
\* the ninth pixel is the first bit of the second byte.
C25_Witness ==
  /\ Returned("dither_rgba") /\ tin.method = "Threshold"
  /\ tin = Image(<<P_half, P_white>>, 9, 1, 16, "Threshold")
  /\ ret[1].ok
  /\ SubSeq(ret[1].v, 9, 10) = <<170, 128>>

\* r is a nearest integer of num / den.
NearestInteger(r, num, den) == 2 * Abs(r * den - num) <= den

\* C26: the image is downscaled exactly when it is wider than the maximum:
\* at width <= max the dimensions are kept, and a wider image gets the width
\* max and the height height*max/width rounded to the nearest integer, at
\* least 1.
C26_HeightRoundedToNearest ==
  (RasterReturned /\ Accepted) =>
    LET g == GrayImage
    IN /\ g.width = (IF Downscaled THEN tin.max_width_px ELSE tin.width)
       /\ ~Downscaled => g.height = tin.height
       /\ Downscaled =>
            \E r \in 0..tin.height :
              /\ NearestInteger(r, tin.height * tin.max_width_px, tin.width)
              /\ g.height = Max(r, 1)

\* C26 as amended: at width <= max the dimensions are kept; a wider image
\* with at least one row gets the width max and the height height*max/width
\* rounded down, at least 1; a wider image without rows is rendered as one
\* empty row when max is 0 and makes the call panic otherwise. The header
\* carries these dimensions.
C26_HeightRoundedDown ==
  (RasterCall /\ Accepted) =>
    /\ ret[1].ok <=> ~(Downscaled /\ tin.height = 0 /\ tin.max_width_px >= 1)
    /\ ret[1].ok =>
         LET g == GrayImage
             s == ret[1].v
         IN /\ g.width = OutWidth /\ g.height = OutHeight
            /\ Len(g.gray) = OutWidth * OutHeight
            /\ ~Downscaled => g.width = tin.width /\ g.height = tin.height
            /\ Downscaled =>
                 /\ g.width = tin.max_width_px
                 /\ g.height >= 1
                 /\ tin.height * tin.max_width_px >= tin.width =>
                      /\ g.height * tin.width <= tin.height * tin.max_width_px
                      /\ (g.height + 1) * tin.width > tin.height * tin.max_width_px
                 /\ tin.height * tin.max_width_px < tin.width => g.height = 1
            /\ Len(s) = 8 + BytesPerLine * OutHeight
            /\ Word(s, 5) = BytesPerLine % 65536
            /\ Word(s, 7) = OutHeight % 65536

\* An image of 3 by 4 at the maximum 2: 8/3 rows become 2.
C26_Witness ==
  /\ RasterReturned
  /\ tin.width = 3 /\ tin.height = 4 /\ tin.max_width_px = 2
  /\ ret[1].v[5] = 1 /\ ret[1].v[7] = 2

\* ------------------------------------------- claims on taxes and divider
\* The entries of taxes that get a "+ " row: not included, amount above zero.
RECURSIVE SumPrintedNotIncluded(_)
SumPrintedNotIncluded(es) ==
  IF es = <<>> THEN [m |-> 0, e |-> 0]
  ELSE IF Head(es).included \/ Head(es).amount.m <= 0
       THEN SumPrintedNotIncluded(Tail(es))
       ELSE ExactPlus(Head(es).amount, SumPrintedNotIncluded(Tail(es)))
PrintsNotIncludedRow(es) ==
  \E i \in 1..Len(es) : ~es[i].included /\ es[i].amount.m > 0
\* The separator line, which only comes with the 'additional taxes' row.
SeparatorLine == Line(<<32, 32>> \o Repeat(45, width_cols(before.width) - 2))
AdditionalRowPrinted == Contains(Appended, SeparatorLine)

\* C27: when taxes prints the 'additional taxes' row, its amount is the sum
\* of the amounts of the rows printed above it for entries not included: an
\* entry skipped for an amount of zero or less does not change it; and the
\* row is printed whenever such a row was printed.
C27_SumOfPrintedRows ==
  (ops # <<>> /\ last.op = "taxes") =>
    LET es == last.args[1]
        shown == <<32, 43, 32>> \o fmt_amount(SumPrintedNotIncluded(es), before.currency)
    IN /\ AdditionalRowPrinted => IsSuffix(Line(shown), Appended)
       /\ PrintsNotIncludedRow(es) => AdditionalRowPrinted

\* C28: divider(ch) appends exactly cols() bytes and a line feed, whatever
\* the character and the width: one byte for each column.
C28_OneBytePerColumn ==
  (ops # <<>> /\ last.op = "divider") =>
    /\ Len(Appended) = width_cols(before.width) + 1
    /\ Appended[Len(Appended)] = 10
    /\ fb.data = before.data \o Appended

\* ------------------------------------------------- the style of the device
\* What a printer keeps of the commands it has read: ESC E n, ESC ! n and
\* ESC a n set the weight, the size and the alignment, and ESC @ sets all
\* three back. No text and no parameter drawn holds the byte ESC, so every
\* ESC opens a command.
DeviceDefault == [bold |-> FALSE, size |-> 0, align |-> 0]
DeviceStates == [bold : BOOLEAN, size : {0, 16, 32, 48}, align : 0..2]
LastCommand(s, c) ==
  LET at == {i \in 1..(Len(s) - 1) : s[i] = ESC /\ s[i + 1] = c}
  IN IF at = {} THEN 0 ELSE CHOOSE i \in at : \A j \in at : j <= i
Replay(st, s) ==
  LET reset == LastCommand(s, 64)
      e == LastCommand(s, 69)
      z == LastCommand(s, 33)
      a == LastCommand(s, 97)
      start == IF reset > 0 THEN DeviceDefault ELSE st
  IN [bold |-> IF e > reset THEN s[e + 2] % 2 = 1 ELSE start.bold,
      size |-> IF z > reset THEN s[z + 2] ELSE start.size,
      align |-> IF a > reset THEN s[a + 2] ELSE start.align]
StyleHelpers ==
  {"shop_header", "item", "subtotal_ht", "discount", "taxes", "total",
   "received", "change", "served_by", "thank_you"}

\* C29: a device that is not bold, of normal size and aligned left before
\* shop_header, item, subtotal_ht, discount, taxes, total, received, change,
\* served_by or thank_you is so after it; and after init and any such
\* helpers the device is in that state at build, whatever it was in before.
C29_StyleRestored ==
  /\ (ops # <<>> /\ last.op \in StyleHelpers) =>
       Replay(DeviceDefault, Appended) = DeviceDefault
  /\ (out # None /\ ops # <<>> /\ ops[1].op = "init"
        /\ \A i \in 2..Len(ops) : ops[i].op \in StyleHelpers) =>
       \A st \in DeviceStates : Replay(st, out[1]) = DeviceDefault

\* init and a total, which is printed bold and at double height, were built.
C29_Witness ==
  /\ out # None
  /\ Len(ops) = 2 /\ ops[1].op = "init" /\ ops[2].op = "total"
  /\ Contains(out[1], BoldOn \o <<ESC, 33, 16>>)
  /\ Replay([bold |-> TRUE, size |-> 48, align |-> 2], out[1]) = DeviceDefault

\* ------------------------------------------------ the order of the errors
FirstFailing ==
  CHOOSE k \in 1..Len(Elements) :
    ElementFails(Elements[k]) /\ \A j \in 1..(k - 1) : ~ElementFails(Elements[j])
ErrorOf(e) ==
  IF HasMalformedMoney(e)
  THEN Err(InvalidDecimal(FirstMalformedMoney(e)))
  ELSE Err(UnknownAlign(e.value))

\* C30: a render reports one error: an unknown width before an unknown
\* language, both before the error of any element, and among the elements
\* the error of the first one that fails, in document order; no element
\* after it is applied.
C30_ErrorPrecedence ==
  Done =>
    LET w == tpl[1].width
        l == tpl[1].language
    IN IF ~IsCodeOf(w, DocumentedWidths)
       THEN result[1] = Err(UnknownWidth(w)) /\ lang = None /\ builder = NoBuilder
       ELSE IF ~IsCodeOf(l, DocumentedLanguages)
       THEN result[1] = Err(UnknownLanguage(l)) /\ builder = NoBuilder
       ELSE IF \E k \in 1..Len(Elements) : ElementFails(Elements[k])
       THEN /\ result[1] = ErrorOf(Elements[FirstFailing])
            /\ idx = FirstFailing
            /\ builder.data = Flatten([k \in 1..(FirstFailing - 1) |-> ElementBytes(Elements[k])])
       ELSE result[1].ok

\* A document with an unknown width, an unknown language and a malformed
\* amount has reported its width.
C30_Witness ==
  /\ Failed
  /\ ~IsCodeOf(tpl[1].width, DocumentedWidths)
  /\ ~IsCodeOf(tpl[1].language, DocumentedLanguages)
  /\ \E k \in 1..Len(Elements) : ElementFails(Elements[k])
  /\ result[1] = Err(UnknownWidth(tpl[1].width))
====
